---- MODULE Spec2Model ----
(***************************************************************************)
(* Transaction reassembly engine of near-staking-indexer                   *)
(* (src/src/transactions.rs, src/src/main.rs, src/src/model.rs).           *)
(*                                                                         *)
(* The chain is an append-only list of blocks.  A block is a stream of     *)
(* chunk items (submitted transactions, data receipts) followed by a       *)
(* stream of receipt execution outcomes; the shards of a block are         *)
(* flattened in shard order, which is the order both loops of              *)
(* process_block visit them in.  process_block is stepped one loop         *)
(* iteration at a time (pc), so that a property of one outcome can be      *)
(* stated about one step.                                                  *)
(***************************************************************************)
EXTENDS Integers, Sequences, FiniteSets, TLC

\* ------------------------------------------------------------------ bounds
MaxBlocks == 3          \* blocks the chain grows to
MaxTxs == 2             \* transactions submitted on the chain
MaxReceipts == 3        \* action receipts spawned on the chain
MaxData == 1            \* data receipts delivered on the chain
MaxRoot == 2            \* receipts a transaction's root outcome spawns
MaxSpawn == 1           \* receipts one receipt's outcome spawns
MaxChunkItems == 1      \* chunk items of one block
MaxOutcomes == 2        \* execution outcomes of one block
MaxRestarts == 1        \* process restarts
FirstBlockHeight == 3   \* height of the first block the feed has

\* ------------------------------------------------------- program constants
SAFE_CATCH_UP_OFFSET == 1000
BLOCK_HEADER_CLEANUP == 2000
SAVE_STEP == 1000
MinBatch == 10000
MaxRetries == 10
InitialDelayMs == 100
QueueCapacity == 100

Accounts == {"alice", "bob"}

\* the accounts that sign the transactions / receive the receipts of the chain
Signers == {"alice", "bob"}
Receivers == {"bob"}

\* ------------------------------------------------------------------ helpers
Max(a, b) == IF a >= b THEN a ELSE b

\* u64::saturating_sub
SaturatingSub(a, b) == IF a >= b THEN a - b ELSE 0

EmptyMap == [k \in {} |-> 0]

MapInsert(m, k, v) == [x \in DOMAIN m \cup {k} |-> IF x = k THEN v ELSE m[x]]

MapRemove(m, k) == [x \in DOMAIN m \ {k} |-> m[x]]

Last(s) == s[Len(s)]

\* Retain gone wrong: the whole list is cleared.  C2 does not survive it.
RetainNone(s, x) == <<>>

\* Vec::retain(|r| r != x)
Retain(s, x) == SelectSeq(s, LAMBDA r : r # x)

SeqToSet(s) == {s[i] : i \in 1..Len(s)}

\* the ids n+1 .. n+k in order
FreshIds(n, k) == [i \in 1..k |-> n + i]

\* Height of the i-th block of the chain.  Heights only matter relative to
\* SAVE_STEP and SAFE_CATCH_UP_OFFSET; the blocks in between carry nothing.
HeightOf(i) == IF i = 1 THEN FirstBlockHeight ELSE 2 * SAVE_STEP + i - 3

\* receipt id of the data receipt that carries data id d
DataReceiptId(d) == 0 - d

\* -------------------------------------------------- Working-Set Store (sled)
LAST_BLOCK_HEIGHT_KEY == "last_block_height"
BLOCK_HEADERS_KEY == "block_headers"
RECEIPT_TO_TX_KEY == "receipt_to_tx"
DATA_RECEIPTS_KEY == "data_receipts"
TRANSACTIONS_KEY == "transactions"

\* TxCache::get_u64(key).unwrap_or(d) and TxCache::get_json(key).unwrap_or_default()
GetOr(db, key, d) == IF key \in DOMAIN db THEN db[key] ELSE d

\* TxCache::set_u64 / TxCache::set_json
SetKey(db, key, v) == MapInsert(db, key, v)

\* OpenSled gone wrong: the directory is kept.  C10 does not survive it.
OpenSledKeep(disk) == disk

\* TransactionsData::new, the directory part: an existing directory is removed,
\* a new one is created and opened, whatever the directory held.
OpenSled(disk) == EmptyMap

\* ------------------------------------------------------- Reassembly Cache
TxCacheNew(db) ==
    [ block_headers     |-> GetOr(db, BLOCK_HEADERS_KEY, EmptyMap),
      receipt_to_tx     |-> GetOr(db, RECEIPT_TO_TX_KEY, EmptyMap),
      data_receipts     |-> GetOr(db, DATA_RECEIPTS_KEY, EmptyMap),
      transactions      |-> GetOr(db, TRANSACTIONS_KEY, EmptyMap),
      last_block_height |-> GetOr(db, LAST_BLOCK_HEIGHT_KEY, 0) ]

\* TxCache::flush
Flush(db, c) ==
    SetKey(SetKey(SetKey(SetKey(db,
        BLOCK_HEADERS_KEY, c.block_headers),
        RECEIPT_TO_TX_KEY, c.receipt_to_tx),
        DATA_RECEIPTS_KEY, c.data_receipts),
        TRANSACTIONS_KEY, c.transactions)

\* The assertion gone wrong: any header is accepted.  C24 does not survive it.
InsertBlockHeaderUnchecked(c, header) == TRUE

\* the assert_eq! of insert_block_header
InsertBlockHeaderOk(c, header) ==
    header.height \in DOMAIN c.block_headers
        => c.block_headers[header.height].hash = header.hash

InsertBlockHeader(c, header) ==
    [c EXCEPT !.block_headers = MapInsert(@, header.height, header)]

GetAndRemoveBlockHeader(c, h) == [c EXCEPT !.block_headers = MapRemove(@, h)]

\* The trim gone wrong: nothing is evicted.  C20 does not survive it.
TrimHeadersNone(c) == c

\* TxCache::trim_headers
RECURSIVE TrimHeaders(_)
TrimHeaders(c) ==
    IF Cardinality(DOMAIN c.block_headers) > BLOCK_HEADER_CLEANUP
    THEN LET lowest == CHOOSE h \in DOMAIN c.block_headers :
                           \A g \in DOMAIN c.block_headers : h <= g
         IN  TrimHeaders([c EXCEPT !.block_headers = MapRemove(@, lowest)])
    ELSE c

\* the assert_eq! of insert_receipt_to_tx
InsertReceiptToTxOk(c, receipt_id, tx_hash) ==
    receipt_id \in DOMAIN c.receipt_to_tx => c.receipt_to_tx[receipt_id] = tx_hash

InsertReceiptToTx(c, receipt_id, tx_hash) ==
    [c EXCEPT !.receipt_to_tx = MapInsert(@, receipt_id, tx_hash)]

RemoveReceiptToTx(c, receipt_id) ==
    [c EXCEPT !.receipt_to_tx = MapRemove(@, receipt_id)]

RECURSIVE RemoveReceiptsToTx(_, _)
RemoveReceiptsToTx(c, ids) ==
    IF ids = <<>> THEN c
    ELSE RemoveReceiptsToTx(RemoveReceiptToTx(c, Head(ids)), Tail(ids))

\* the assert_eq! of insert_data_receipt
InsertDataReceiptOk(c, data_id, receipt) ==
    data_id \in DOMAIN c.data_receipts
        => c.data_receipts[data_id].receipt_id = receipt.receipt_id

InsertDataReceipt(c, data_id, receipt) ==
    [c EXCEPT !.data_receipts = MapInsert(@, data_id, receipt)]

RECURSIVE InsertReceiptsToTx(_, _, _)
InsertReceiptsToTx(c, ids, tx_hash) ==
    IF ids = <<>> THEN c
    ELSE InsertReceiptsToTx(InsertReceiptToTx(c, Head(ids), tx_hash), Tail(ids), tx_hash)

\* no insert_receipt_to_tx of insert_transaction trips its assert_eq!
InsertTransactionOk(c, pt, ids) ==
    \A i \in 1..Len(ids) : InsertReceiptToTxOk(c, ids[i], pt.transaction.hash)

InsertTransaction(c, pt, ids) ==
    [InsertReceiptsToTx(c, ids, pt.transaction.hash)
        EXCEPT !.transactions = MapInsert(@, pt.transaction.hash, pt)]

GetAndRemoveTransaction(c, tx_hash) ==
    [c EXCEPT !.transactions = MapRemove(@, tx_hash)]

\* The loop over input_data_ids: each id found is removed from the pool and
\* its receipt collected; the loop stops at the first id that is absent.
RECURSIVE TakeDataReceipts(_, _, _)
TakeDataReceipts(c, ids, taken) ==
    IF ids = <<>> THEN [cache |-> c, taken |-> taken, ok |-> TRUE]
    ELSE IF Head(ids) \notin DOMAIN c.data_receipts
         THEN [cache |-> c, taken |-> taken, ok |-> FALSE]
         ELSE TakeDataReceipts(
                  [c EXCEPT !.data_receipts = MapRemove(@, Head(ids))],
                  Tail(ids),
                  Append(taken, c.data_receipts[Head(ids)]))

\* ------------------------------------------------------ Completion Filter
\* add_accounts_from_receipt and add_accounts_from_logs for one executed
\* receipt: its receiver, the accounts extract_accounts finds in the
\* FunctionCall arguments and the ones it finds in the EVENT_JSON logs.
AccountsFromReceipt(r) == {r.receiver_id} \cup r.arg_accounts \cup r.log_accounts

GetAccountsFromTransaction(pt) ==
    {pt.transaction.signer_id}
        \cup UNION {AccountsFromReceipt(pt.transaction.receipts[i]) :
                        i \in 1..Len(pt.transaction.receipts)}

\* Regex::new(pattern) succeeds
RegexCompiles(pattern) == pattern # "("

\* Regex::is_match for the patterns the watch lists of the model use
RegexIsMatch(pattern, account) ==
    CASE pattern = ".*" -> TRUE
      [] pattern = "^alice$" -> account = "alice"
      [] OTHER -> FALSE

\* The scan gone wrong: only the first entry of the watch list is tried.
\* C22 does not survive it.
WatchListScanHeadOnly(wl, accounts) ==
    IF wl = <<>> THEN "nomatch"
    ELSE LET e == Head(wl) IN
         IF e.is_regex
         THEN IF ~RegexCompiles(e.account_id) THEN "panic"
              ELSE IF \E a \in accounts : RegexIsMatch(e.account_id, a) THEN "match"
              ELSE "nomatch"
         ELSE IF e.account_id \in accounts THEN "match"
              ELSE "nomatch"

\* The two nested find() calls: entries are visited in list order up to the
\* first one that matches; a regex entry is compiled when it is visited.
RECURSIVE WatchListScan(_, _)
WatchListScan(wl, accounts) ==
    IF wl = <<>> THEN "nomatch"
    ELSE LET e == Head(wl) IN
         IF e.is_regex
         THEN IF ~RegexCompiles(e.account_id) THEN "panic"
              ELSE IF \E a \in accounts : RegexIsMatch(e.account_id, a) THEN "match"
              ELSE WatchListScan(Tail(wl), accounts)
         ELSE IF e.account_id \in accounts THEN "match"
              ELSE WatchListScan(Tail(wl), accounts)

SomeAccountInWatchList(wl, pt) == WatchListScan(wl, GetAccountsFromTransaction(pt))

\* ----------------------------------------------------------- Row Projector
EmptyRows == [transactions |-> <<>>, account_txs |-> <<>>,
              block_txs |-> <<>>, receipt_txs |-> <<>>]

AccountOrder == <<"alice", "bob">>

\* the accounts of a set in the order the projector visits them
AccountSeq(accounts) == SelectSeq(AccountOrder, LAMBDA a : a \in accounts)

\* The loop gone wrong: a header taken out of the cache is not put back.
\* C28 does not survive it.
RECURSIVE ProjectBlocksTaking(_, _, _, _)
ProjectBlocksTaking(c, block_txs, pt, heights) ==
    IF heights = <<>> THEN [cache |-> c, block_txs |-> block_txs]
    ELSE LET h == Head(heights) IN
         IF h \in DOMAIN c.block_headers
         THEN LET header == c.block_headers[h]
                  row == [block_height     |-> h,
                          block_hash       |-> header.hash,
                          transaction_hash |-> pt.transaction.hash,
                          signer_id        |-> pt.transaction.signer_id,
                          tx_block_height  |-> pt.tx_block_height]
              IN ProjectBlocksTaking(GetAndRemoveBlockHeader(c, h),
                                     Append(block_txs, row), pt, Tail(heights))
         ELSE ProjectBlocksTaking(c, block_txs, pt, Tail(heights))

\* The loop over transaction.blocks: a height whose header is cached yields a
\* BlockTxRow, and the header, taken out of the cache, is put back.
RECURSIVE ProjectBlocks(_, _, _, _)
ProjectBlocks(c, block_txs, pt, heights) ==
    IF heights = <<>> THEN [cache |-> c, block_txs |-> block_txs]
    ELSE LET h == Head(heights) IN
         IF h \in DOMAIN c.block_headers
         THEN LET header == c.block_headers[h]
                  row == [block_height     |-> h,
                          block_hash       |-> header.hash,
                          transaction_hash |-> pt.transaction.hash,
                          signer_id        |-> pt.transaction.signer_id,
                          tx_block_height  |-> pt.tx_block_height]
              IN ProjectBlocks(
                     InsertBlockHeader(GetAndRemoveBlockHeader(c, h), header),
                     Append(block_txs, row), pt, Tail(heights))
         ELSE ProjectBlocks(c, block_txs, pt, Tail(heights))

ReceiptTxRowOf(pt, receipt_id) ==
    [receipt_id       |-> receipt_id,
     transaction_hash |-> pt.transaction.hash,
     signer_id        |-> pt.transaction.signer_id,
     tx_block_height  |-> pt.tx_block_height]

AccountTxRowOf(pt, account_id) ==
    [account_id       |-> account_id,
     transaction_hash |-> pt.transaction.hash,
     signer_id        |-> pt.transaction.signer_id,
     tx_block_height  |-> pt.tx_block_height]

TransactionRowOf(pt) ==
    [transaction_hash  |-> pt.transaction.hash,
     signer_id         |-> pt.transaction.signer_id,
     tx_block_height   |-> pt.tx_block_height,
     tx_block_hash     |-> pt.tx_block_hash,
     transaction       |-> pt.transaction,
     last_block_height |-> Last(pt.blocks)]

\* The projector gone wrong: the data receipts get no rows.  C21 does not
\* survive it.
ProcessTransactionNoData(c, rows, pt) ==
    LET b == ProjectBlocks(c, rows.block_txs, pt, pt.blocks)
        accounts == AccountSeq(GetAccountsFromTransaction(pt))
    IN  [cache |-> b.cache,
         rows  |->
           [transactions |-> Append(rows.transactions, TransactionRowOf(pt)),
            account_txs  |-> rows.account_txs
                \o [i \in 1..Len(accounts) |-> AccountTxRowOf(pt, accounts[i])],
            block_txs    |-> b.block_txs,
            receipt_txs  |-> rows.receipt_txs
                \o [i \in 1..Len(pt.transaction.receipts) |->
                        ReceiptTxRowOf(pt, pt.transaction.receipts[i].receipt_id)]]]

\* TransactionsData::process_transaction
ProcessTransaction(c, rows, pt) ==
    LET b == ProjectBlocks(c, rows.block_txs, pt, pt.blocks)
        accounts == AccountSeq(GetAccountsFromTransaction(pt))
    IN  [cache |-> b.cache,
         rows  |->
           [transactions |-> Append(rows.transactions, TransactionRowOf(pt)),
            account_txs  |-> rows.account_txs
                \o [i \in 1..Len(accounts) |-> AccountTxRowOf(pt, accounts[i])],
            block_txs    |-> b.block_txs,
            receipt_txs  |-> rows.receipt_txs
                \o [i \in 1..Len(pt.transaction.receipts) |->
                        ReceiptTxRowOf(pt, pt.transaction.receipts[i].receipt_id)]
                \o [i \in 1..Len(pt.transaction.data_receipts) |->
                        ReceiptTxRowOf(pt, pt.transaction.data_receipts[i].receipt_id)]]]

\* The loop gone wrong: each transaction is projected twice.  C31 does not
\* survive it.
RECURSIVE ProcessTransactionsTwice(_, _, _)
ProcessTransactionsTwice(c, rows, pts) ==
    IF pts = <<>> THEN [cache |-> c, rows |-> rows]
    ELSE LET one == ProcessTransaction(c, rows, Head(pts))
             two == ProcessTransaction(one.cache, one.rows, Head(pts))
         IN  ProcessTransactionsTwice(two.cache, two.rows, Tail(pts))

\* the loop over complete_transactions at the end of process_block
RECURSIVE ProcessTransactions(_, _, _)
ProcessTransactions(c, rows, pts) ==
    IF pts = <<>> THEN [cache |-> c, rows |-> rows]
    ELSE LET one == ProcessTransaction(c, rows, Head(pts))
         IN  ProcessTransactions(one.cache, one.rows, Tail(pts))

\* ------------------------------------------------ relational sink (model.rs)
\* POSTGRES_SKIP_COMMIT=true suppresses the inserts
PostgresSkipCommit == FALSE

\* the sink's unique-key constraint rejects a row that is already stored
IsDuplicate(table, row) == row \in table

\* The pass gone wrong: a unique-key violation counts as any other error.
\* C16 does not survive it.
RECURSIVE InsertAttemptDupFails(_, _, _, _)
InsertAttemptDupFails(table, rows, k, err_at) ==
    IF PostgresSkipCommit \/ k > Len(rows) THEN [table |-> table, res |-> "ok"]
    ELSE IF k = err_at \/ IsDuplicate(table, rows[k]) THEN [table |-> table, res |-> "err"]
    ELSE InsertAttemptDupFails(table \cup {rows[k]}, rows, k + 1, err_at)

\* One pass of the closure `res` over the rows from index k on: "ok" when every
\* row went in, "dup" at the first unique-key violation, "err" at the insert
\* that fails for another reason (err_at; 0 for none).  No transaction wraps
\* the inserts: the rows inserted before a failure stay in the table.
RECURSIVE InsertAttempt(_, _, _, _)
InsertAttempt(table, rows, k, err_at) ==
    IF PostgresSkipCommit \/ k > Len(rows) THEN [table |-> table, res |-> "ok"]
    ELSE IF k = err_at THEN [table |-> table, res |-> "err"]
    ELSE IF IsDuplicate(table, rows[k]) THEN [table |-> table, res |-> "dup"]
    ELSE InsertAttempt(table \cup {rows[k]}, rows, k + 1, err_at)

\* The retry loop of insert_rows_with_retry from attempt i on.  errs[i + 1] is
\* the row at which attempt i fails for a reason other than a duplicate key
\* (0, or past the end of errs, for no such failure).  delay is the local
\* `delay` in milliseconds; slept lists the sleeps made so far.
RECURSIVE RetryLoop(_, _, _, _, _, _)
RetryLoop(table, rows, i, delay, slept, errs) ==
    LET a == InsertAttempt(table, rows, 1, IF i + 1 <= Len(errs) THEN errs[i + 1] ELSE 0)
    IN  IF a.res \in {"ok", "dup"}
        THEN [table |-> a.table, ok |-> TRUE, attempts |-> i + 1,
              slept |-> slept, res |-> a.res]
        ELSE IF i = MaxRetries - 1
        THEN [table |-> a.table, ok |-> FALSE, attempts |-> i + 1,
              slept |-> Append(slept, delay), res |-> "err"]
        ELSE RetryLoop(a.table, rows, i + 1, delay * 2, Append(slept, delay), errs)

\* The retry gone wrong: it never waits.  C15 does not survive it.
InsertRowsNoBackoff(table, rows, errs) ==
    RetryLoop(table, rows, 0, 0, <<>>, errs)

\* PostgresDB::insert_rows_with_retry
InsertRowsWithRetry(table, rows, errs) ==
    RetryLoop(table, rows, 0, InitialDelayMs, <<>>, errs)

\* db.max("block_height", "block_txs").unwrap_or(0)
DbMax(sink) ==
    IF sink.block_txs = {} THEN 0
    ELSE CHOOSE h \in {r.block_height : r \in sink.block_txs} :
             \A r \in sink.block_txs : r.block_height <= h

\* ---------------------------------------------------------- Batch Committer
\* One table of commit: a buffer that is empty is not sent.
CommitTable(table, rows, errs) ==
    IF rows = <<>> THEN [table |-> table, ok |-> TRUE]
    ELSE LET r == InsertRowsWithRetry(table, rows, errs)
         IN  [table |-> r.table, ok |-> r.ok]

\* TransactionsData::commit: the four buffers in order, `?` returning at the
\* first insert that gives up.  errs holds one failure script per table.
Commit(sink, rows, errs) ==
    LET t == CommitTable(sink.transactions, rows.transactions, errs[1])
        a == CommitTable(sink.account_txs, rows.account_txs, errs[2])
        b == CommitTable(sink.block_txs, rows.block_txs, errs[3])
        r == CommitTable(sink.receipt_txs, rows.receipt_txs, errs[4])
        s1 == [sink EXCEPT !.transactions = t.table]
        s2 == [s1 EXCEPT !.account_txs = a.table]
        s3 == [s2 EXCEPT !.block_txs = b.table]
        s4 == [s3 EXCEPT !.receipt_txs = r.table]
    IN  IF ~t.ok THEN [sink |-> s1, ok |-> FALSE]
        ELSE IF ~a.ok THEN [sink |-> s2, ok |-> FALSE]
        ELSE IF ~b.ok THEN [sink |-> s3, ok |-> FALSE]
        ELSE [sink |-> s4, ok |-> r.ok]

\* The condition gone wrong: only the round block counts.  C14 does not
\* survive it.
ShouldCommitRoundOnly(rows, block_height, every_block) ==
    block_height % SAVE_STEP = 0

\* the condition of maybe_commit
ShouldCommit(rows, block_height, every_block) ==
    \/ Len(rows.transactions) >= MinBatch
    \/ block_height % SAVE_STEP = 0
    \/ every_block

\* TransactionsData::maybe_commit
MaybeCommit(sink, rows, block_height, every_block, errs) ==
    IF ShouldCommit(rows, block_height, every_block)
    THEN LET c == Commit(sink, rows, errs)
         IN  [sink |-> c.sink, rows |-> EmptyRows, ok |-> c.ok, committed |-> TRUE]
    ELSE [sink |-> sink, rows |-> rows, ok |-> TRUE, committed |-> FALSE]

\* the failure scripts the sink follows in this model: no insert fails for a
\* reason other than a duplicate key
NoErrs == <<<<>>, <<>>, <<>>, <<>>>>

ErrScripts == {NoErrs}

\* ----------------------------------------------------------- Block Processor
\* skip_missing_receipts gone wrong: a strict comparison.  C5 does not
\* survive it.
SkipMissingReceiptsStrict(block_height, last_db_block_height) ==
    block_height < last_db_block_height

\* skip_missing_receipts gone wrong: always set.  C7 does not survive it.
SkipMissingReceiptsAlways(block_height, last_db_block_height) == TRUE

\* skip_missing_receipts
SkipMissingReceipts(block_height, last_db_block_height) ==
    block_height <= last_db_block_height

\* RunsRowProjector gone wrong: the height is not compared.  C4 does not
\* survive it.
RunsRowProjectorAlways(block_height, last_db_block_height) == TRUE

\* the condition under which process_block runs the Row Projector
RunsRowProjector(block_height, last_db_block_height) ==
    block_height > last_db_block_height

\* The push gone wrong: the height is appended every time.  C25 does not
\* survive it.
PushBlockAlways(blocks, block_height) == Append(blocks, block_height)

\* blocks.push(block_height) unless it is the last element already
PushBlock(blocks, block_height) ==
    IF blocks # <<>> /\ Last(blocks) = block_height THEN blocks
    ELSE Append(blocks, block_height)

\* the PendingTransaction the chunk pass builds for a submitted transaction
NewPendingTransaction(tx, block) ==
    [tx_block_height     |-> block.height,
     tx_block_hash       |-> block.hash,
     blocks              |-> <<block.height>>,
     transaction         |-> [hash          |-> tx.hash,
                              signer_id     |-> tx.signer_id,
                              receipts      |-> <<>>,
                              data_receipts |-> <<>>],
     pending_receipt_ids |-> tx.receipt_ids]

\* The transaction of an outcome once its receipt id is retained out of the
\* pending list and the block is recorded.
AfterReceipt(pt, receipt_id, block_height) ==
    [pt EXCEPT !.pending_receipt_ids = Retain(@, receipt_id),
               !.blocks = PushBlock(@, block_height)]

\* The attachment gone wrong: the data receipts of the outcome are put in
\* front of the ones the transaction already has.  C27 does not survive it.
AfterOutcomeDataFirst(pt, o, taken) ==
    [pt EXCEPT !.transaction.data_receipts = taken \o @,
               !.transaction.receipts = Append(@, o),
               !.pending_receipt_ids = @ \o o.receipt_ids]

\* The transaction with the data receipts and the executed receipt attached
\* and the spawned receipt ids pending.
AfterOutcome(pt, o, taken) ==
    [pt EXCEPT !.transaction.data_receipts = @ \o taken,
               !.transaction.receipts = Append(@, o),
               !.pending_receipt_ids = @ \o o.receipt_ids]

\* Abandon gone wrong: nothing is purged.  C6 does not survive it.
AbandonNoPurge(c, pt) == c

\* The purge of the abandon path: the receipt_to_tx entries of the ids still
\* pending are removed; the transaction record is not put back.
Abandon(c, pt) == RemoveReceiptsToTx(c, pt.pending_receipt_ids)

\* The whole body of the outcome loop for outcome o.  what: the branch taken
\* (a panic message for the fatal ones); cache: the cache after it; pt: the
\* transaction as it stands at that point.
OutcomeBody(c, o, block_height, skip, wl) ==
    IF o.receipt_id \notin DOMAIN c.receipt_to_tx
    THEN [what  |-> IF skip THEN "warn: Missing tx_hash"
                    ELSE "panic: Missing tx_hash for receipt_id",
          cache |-> c]
    ELSE
    LET tx_hash == c.receipt_to_tx[o.receipt_id]
        c1      == RemoveReceiptToTx(c, o.receipt_id)
    IN  IF tx_hash \notin DOMAIN c1.transactions
        THEN [what |-> "panic: Missing transaction for receipt", cache |-> c1]
        ELSE
        LET c2  == GetAndRemoveTransaction(c1, tx_hash)
            pt1 == AfterReceipt(c1.transactions[tx_hash], o.receipt_id, block_height)
        IN  IF o.kind = "Data"
            THEN [what |-> "panic: Data receipt should be processed before",
                  cache |-> c2, pt |-> pt1]
            ELSE
            LET d == TakeDataReceipts(c2, o.input_data_ids, <<>>) IN
            IF ~d.ok
            THEN IF skip
                 THEN [what |-> "warn: Missing data receipt",
                       cache |-> Abandon(d.cache, pt1), pt |-> pt1]
                 ELSE [what |-> "panic: Missing data receipt for data_id",
                       cache |-> d.cache, pt |-> pt1]
            ELSE
            LET pt2 == AfterOutcome(pt1, o, d.taken) IN
            IF pt2.pending_receipt_ids = <<>>
            THEN LET m == SomeAccountInWatchList(wl, pt2) IN
                 [what  |-> IF m = "panic" THEN "panic: invalid regex"
                            ELSE IF m = "match" THEN "complete: kept"
                            ELSE "complete: dropped",
                  cache |-> d.cache, pt |-> pt2]
            ELSE IF ~InsertTransactionOk(d.cache, pt2, o.receipt_ids)
            THEN [what |-> "panic: Duplicate receipt_id", cache |-> d.cache, pt |-> pt2]
            ELSE [what  |-> "pending",
                  cache |-> InsertTransaction(d.cache, pt2, o.receipt_ids),
                  pt    |-> pt2]

IsPanic(what) == what \in {"panic: Missing tx_hash for receipt_id",
                           "panic: Missing transaction for receipt",
                           "panic: Data receipt should be processed before",
                           "panic: Missing data receipt for data_id",
                           "panic: invalid regex",
                           "panic: Duplicate receipt_id",
                           "panic: Header mismatch",
                           "panic: Duplicate data_id",
                           "panic: sink error"}

\* The chunk pass of process_block over the chunk items of a block, in one go.
RECURSIVE ChunkPass(_, _, _)
ChunkPass(c, items, header) ==
    IF items = <<>> THEN [cache |-> c, ok |-> TRUE]
    ELSE LET it == Head(items) IN
         IF it.kind = "tx"
         THEN LET pt == NewPendingTransaction(it, header) IN
              IF InsertTransactionOk(c, pt, pt.pending_receipt_ids)
              THEN ChunkPass(InsertTransaction(c, pt, pt.pending_receipt_ids),
                             Tail(items), header)
              ELSE [cache |-> c, ok |-> FALSE]
         ELSE IF InsertDataReceiptOk(c, it.data_id, it)
              THEN ChunkPass(InsertDataReceipt(c, it.data_id, it), Tail(items), header)
              ELSE [cache |-> c, ok |-> FALSE]

\* The outcome pass of process_block over the outcomes of a block, in one go.
RECURSIVE OutcomePass(_, _, _, _, _, _)
OutcomePass(c, outcomes, block_height, skip, wl, complete) ==
    IF outcomes = <<>> THEN [cache |-> c, complete |-> complete, ok |-> TRUE]
    ELSE LET res == OutcomeBody(c, Head(outcomes), block_height, skip, wl) IN
         IF IsPanic(res.what)
         THEN [cache |-> res.cache, complete |-> complete, ok |-> FALSE]
         ELSE OutcomePass(res.cache, Tail(outcomes), block_height, skip, wl,
                          IF res.what = "complete: kept"
                          THEN Append(complete, res.pt) ELSE complete)

\* process_block up to maybe_commit, in one go, on the state st = [cache, rows,
\* ok]: the rows it adds stay in the buffer.
ProcessBlock(st, blk, last_db_block_height, wl) ==
    LET header == [height |-> blk.height, hash |-> blk.hash] IN
    IF ~st.ok \/ ~InsertBlockHeaderOk(st.cache, header)
    THEN [st EXCEPT !.ok = FALSE]
    ELSE
    LET ch == ChunkPass(InsertBlockHeader(st.cache, header), blk.chunk, header) IN
    IF ~ch.ok THEN [cache |-> ch.cache, rows |-> st.rows, ok |-> FALSE]
    ELSE
    LET out == OutcomePass(ch.cache, blk.outcomes, blk.height,
                           SkipMissingReceipts(blk.height, last_db_block_height),
                           wl, <<>>)
    IN
    IF ~out.ok THEN [cache |-> out.cache, rows |-> st.rows, ok |-> FALSE]
    ELSE
    LET trimmed == TrimHeaders(out.cache)
        p == IF RunsRowProjector(blk.height, last_db_block_height)
             THEN ProcessTransactions(trimmed, st.rows, out.complete)
             ELSE [cache |-> trimmed, rows |-> st.rows]
    IN  [cache |-> p.cache, rows |-> p.rows, ok |-> TRUE]

\* One run of the engine from an empty store and an empty sink over the
\* blocks of a feed, without a commit: the cache it ends with and the rows it
\* emitted.
RECURSIVE RunFrom(_, _, _, _)
RunFrom(st, blocks, last_db_block_height, wl) ==
    IF blocks = <<>> THEN st
    ELSE RunFrom(ProcessBlock(st, Head(blocks), last_db_block_height, wl),
                 Tail(blocks), last_db_block_height, wl)

StraightRun(blocks, wl) ==
    RunFrom([cache |-> TxCacheNew(EmptyMap), rows |-> EmptyRows, ok |-> TRUE],
            blocks, 0, wl)

\* ------------------------------------------------------- Startup & Recovery
\* TransactionsData::last_block_height
LastBlockHeight(db, sink) == Max(DbMax(sink), GetOr(db, LAST_BLOCK_HEIGHT_KEY, 0))

\* TransactionsData::is_cache_ready
IsCacheReady(db, last) == GetOr(db, LAST_BLOCK_HEIGHT_KEY, 0) = last

\* start_block_height gone wrong: the first available block is not taken
\* into account.  C9 does not survive it.
StartBlockHeightNoClamp(first, last, ready) ==
    IF ready THEN last + 1 ELSE SaturatingSub(last, SAFE_CATCH_UP_OFFSET)

\* start_block_height of main's "transactions" command
StartBlockHeight(first, last, ready) ==
    Max(first, IF ready THEN last + 1 ELSE SaturatingSub(last, SAFE_CATCH_UP_OFFSET))

\* the index of the first block of the chain the fetcher delivers
FeedPos(start) ==
    CHOOSE i \in 1..(MaxBlocks + 1) :
        /\ \A j \in 1..(i - 1) : HeightOf(j) < start
        /\ i <= MaxBlocks => HeightOf(i) >= start

\* -------------------------------------------------------------------- state
VARIABLES
    chain,                  \* the blocks the upstream feed has served so far
    gen,                    \* bookkeeping of the chain: ids in use, receipts executed
    sink,                   \* the four tables and the watch_list table
    sled,                   \* the Working-Set Store on disk
    tx_cache,               \* TransactionsData.tx_cache
    rows,                   \* TransactionsData.rows
    watch_list,             \* TransactionsData.watch_list
    commit_every_block,     \* TransactionsData.commit_every_block
    last_block_height,      \* main: last_block_height, handed to process_block
    start_block_height,     \* main: start_block_height, handed to the fetcher
    boot,                   \* what main read at startup
    pc,                     \* "recv", "chunks", "outcomes", "stopped", "fatal"
    pos,                    \* index in chain of the block in hand / next to receive
    idx,                    \* items of the current pass consumed so far
    replay,                 \* the block in hand was served before (re-scan)
    block,                  \* header of the block in hand
    complete_transactions,  \* process_block: complete_transactions
    event,                  \* the last log line or panic message
    ever,                   \* per cached transaction: ids ever in pending_receipt_ids
    handed,                 \* transactions handed to the Completion Filter in this run
    abandoned,              \* transactions abandoned in this run
    restarts,               \* restarts so far
    queue,                  \* the channel: feed positions enqueued, not yet received
    fetched,                \* fetcher: feed position of the next block it enqueues
    is_running,             \* main: the is_running flag
    closed,                 \* the fetcher dropped the sender
    backlog,                \* blocks were in the channel when the sender was dropped
    call                    \* the last call made on its own and its result

vars == <<chain, gen, sink, sled, tx_cache, rows, watch_list, commit_every_block,
          last_block_height, start_block_height, boot, pc, pos, idx, replay, block,
          complete_transactions, event, ever, handed, abandoned, restarts,
          queue, fetched, is_running, closed, backlog, call>>

envVars == <<chain, gen>>
mainVars == <<watch_list, commit_every_block, last_block_height, start_block_height,
              boot, restarts>>

\* the fetcher task and the channel, and the record of the sink calls; in Spec
\* the fetcher hands each block over when the processor asks for it, so the
\* channel stays empty
pipeVars == <<queue, fetched, is_running, closed, backlog>>
sideVars == <<queue, fetched, is_running, closed, backlog, call>>

NoCall == [op |-> "none"]

\* the watch_list table of the sink, as the operator filled it
WatchLists == {<<[account_id |-> "alice", is_regex |-> FALSE]>>}

\* COMMIT_EVERY_BLOCK as the environment sets it: unset, the default
CommitEveryBlock == {FALSE}

ArgAccountSets == {{}}
LogAccountSets == {{}}

skip_missing_receipts == SkipMissingReceipts(block.height, last_block_height)

\* ------------------------------------------------------------ upstream feed
\* A transaction the chain may carry next: a new hash, and a root outcome
\* that spawns up to MaxRoot receipts with new ids.
FreshTxs ==
    IF gen.ntx >= MaxTxs THEN {}
    ELSE {[kind |-> "tx", hash |-> gen.ntx + 1, signer_id |-> a,
           receipt_ids |-> FreshIds(gen.nrid, n)] :
              a \in Signers, n \in {k \in 0..MaxRoot : gen.nrid + k <= MaxReceipts}}

\* A data receipt the chain may carry next.
FreshData ==
    IF gen.ndata >= MaxData THEN {}
    ELSE {[kind |-> "data", data_id |-> gen.ndata + 1,
           receipt_id |-> DataReceiptId(gen.ndata + 1)]}

\* An execution outcome the chain may carry next: of an action receipt that
\* was spawned and has not executed, waiting on no data or on a data receipt
\* the chain delivered, spawning up to MaxSpawn receipts with new ids.
FreshOutcomes ==
    {[kind |-> "Action", receipt_id |-> r, receiver_id |-> a,
      arg_accounts |-> x, log_accounts |-> y,
      input_data_ids |-> d, receipt_ids |-> FreshIds(gen.nrid, n)] :
         r \in (1..gen.nrid) \ gen.executed, a \in Receivers,
         x \in ArgAccountSets, y \in LogAccountSets,
         d \in {<<>>} \cup {<<i>> : i \in (1..gen.ndata) \ gen.consumed},
         n \in {k \in 0..MaxSpawn : gen.nrid + k <= MaxReceipts}}

\* the chunk items that can come next in the block in hand
NextChunkItems ==
    IF replay
    THEN IF idx < Len(chain[pos].chunk) THEN {chain[pos].chunk[idx + 1]} ELSE {}
    ELSE IF idx < MaxChunkItems THEN FreshTxs \cup FreshData ELSE {}

NextOutcomes ==
    IF replay
    THEN IF idx < Len(chain[pos].outcomes) THEN {chain[pos].outcomes[idx + 1]} ELSE {}
    ELSE IF idx < MaxOutcomes THEN FreshOutcomes ELSE {}

\* The pass gone wrong: it may be left at any point.  C18 does not survive it.
PassDoneAnywhere(list) == TRUE

\* the pass over the current list is at its end
PassDone(list) == replay => idx = Len(list)

ChainWithChunkItem(it) ==
    IF replay THEN chain ELSE [chain EXCEPT ![pos].chunk = Append(@, it)]

ChainWithOutcome(o) ==
    IF replay THEN chain ELSE [chain EXCEPT ![pos].outcomes = Append(@, o)]

GenWithTx(tx) ==
    IF replay THEN gen
    ELSE [gen EXCEPT !.ntx = tx.hash,
                     !.nrid = @ + Len(tx.receipt_ids),
                     !.tx_pos = MapInsert(@, tx.hash, pos),
                     !.owner = [r \in DOMAIN @ \cup SeqToSet(tx.receipt_ids) |->
                                   IF r \in DOMAIN @ THEN @[r] ELSE tx.hash]]

GenWithData(dr) == IF replay THEN gen ELSE [gen EXCEPT !.ndata = dr.data_id]

GenWithOutcome(o) ==
    IF replay THEN gen
    ELSE [gen EXCEPT !.nrid = @ + Len(o.receipt_ids),
                     !.executed = @ \cup {o.receipt_id},
                     !.consumed = @ \cup SeqToSet(o.input_data_ids),
                     !.owner = [r \in DOMAIN @ \cup SeqToSet(o.receipt_ids) |->
                                   IF r \in DOMAIN @ THEN @[r] ELSE @[o.receipt_id]]]

\* ------------------------------------------------------------------ startup
\* main up to the spawn of the fetcher, on the disk and the sink as they are
Boot(disk, db) ==
    LET store == OpenSled(disk)
        last  == LastBlockHeight(store, db)
        ready == IsCacheReady(store, last)
    IN  [sled               |-> store,
         tx_cache           |-> TxCacheNew(store),
         last_block_height  |-> last,
         start_block_height |-> StartBlockHeight(FirstBlockHeight, last, ready),
         info |-> [db_block           |-> DbMax(db),
                   cache_block        |-> GetOr(store, LAST_BLOCK_HEIGHT_KEY, 0),
                   disk_block         |-> GetOr(disk, LAST_BLOCK_HEIGHT_KEY, 0),
                   flushed            |-> TRANSACTIONS_KEY \in DOMAIN disk,
                   found              |-> TxCacheNew(disk),
                   is_cache_ready     |-> ready,
                   first_block_height |-> FirstBlockHeight]]

Init ==
    \E wl \in WatchLists, every \in CommitEveryBlock :
        LET db == [transactions |-> {}, account_txs |-> {}, block_txs |-> {},
                   receipt_txs |-> {}, watch_list |-> wl]
            b  == Boot(EmptyMap, db)
        IN  /\ chain = <<>>
            /\ gen = [ntx |-> 0, nrid |-> 0, ndata |-> 0, executed |-> {},
                      consumed |-> {}, owner |-> EmptyMap, tx_pos |-> EmptyMap]
            /\ sink = db
            /\ sled = b.sled
            /\ tx_cache = b.tx_cache
            /\ rows = EmptyRows
            /\ watch_list = wl
            /\ commit_every_block = every
            /\ last_block_height = b.last_block_height
            /\ start_block_height = b.start_block_height
            /\ boot = b.info
            /\ pc = "recv"
            /\ pos = FeedPos(b.start_block_height)
            /\ idx = 0
            /\ replay = FALSE
            /\ block = [height |-> 0, hash |-> 0]
            /\ complete_transactions = <<>>
            /\ event = "start"
            /\ ever = EmptyMap
            /\ handed = {}
            /\ abandoned = {}
            /\ restarts = 0
            /\ queue = <<>>
            /\ fetched = FeedPos(b.start_block_height)
            /\ is_running = TRUE
            /\ closed = FALSE
            /\ backlog = FALSE
            /\ call = NoCall

\* ------------------------------------------------------------------ actions
\* stream.recv() yields the next block; process_block starts:
\* skip_missing_receipts is fixed and the header goes into the cache.
Recv(p) ==
    /\ LET header == [height |-> HeightOf(p), hash |-> HeightOf(p)] IN
       /\ block' = header
       /\ replay' = (p <= Len(chain))
       /\ chain' = IF p <= Len(chain) THEN chain
                   ELSE Append(chain, [height |-> header.height, hash |-> header.hash,
                                       chunk |-> <<>>, outcomes |-> <<>>])
       /\ IF InsertBlockHeaderOk(tx_cache, header)
          THEN /\ tx_cache' = InsertBlockHeader(tx_cache, header)
               /\ pc' = "chunks"
               /\ event' = "block"
          ELSE /\ tx_cache' = tx_cache
               /\ pc' = "fatal"
               /\ event' = "panic: Header mismatch"
    /\ idx' = 0
    /\ complete_transactions' = <<>>
    /\ UNCHANGED <<gen, sink, sled, rows, ever, handed, abandoned>>
    /\ UNCHANGED mainVars

\* the fetcher has the next block of the feed ready when the processor asks
RecvBlock ==
    /\ pc = "recv"
    /\ pos <= Max(MaxBlocks, Len(chain))
    /\ Recv(pos)
    /\ UNCHANGED pos
    /\ UNCHANGED sideVars

\* chunk pass: a submitted transaction
ChunkTransaction ==
    /\ pc = "chunks"
    /\ \E tx \in {it \in NextChunkItems : it.kind = "tx"} :
         LET pt == NewPendingTransaction(tx, block) IN
         /\ chain' = ChainWithChunkItem(tx)
         /\ gen' = GenWithTx(tx)
         /\ IF InsertTransactionOk(tx_cache, pt, pt.pending_receipt_ids)
            THEN /\ tx_cache' = InsertTransaction(tx_cache, pt, pt.pending_receipt_ids)
                 /\ ever' = MapInsert(ever, tx.hash, SeqToSet(tx.receipt_ids))
                 /\ pc' = "chunks"
                 /\ event' = "tx"
            ELSE /\ UNCHANGED <<tx_cache, ever>>
                 /\ pc' = "fatal"
                 /\ event' = "panic: Duplicate receipt_id"
    /\ idx' = idx + 1
    /\ UNCHANGED <<sink, sled, rows, pos, replay, block, complete_transactions,
                   handed, abandoned>>
    /\ UNCHANGED mainVars
    /\ UNCHANGED sideVars

\* chunk pass: a data receipt (an action receipt of a chunk is passed over)
ChunkReceipt ==
    /\ pc = "chunks"
    /\ \E dr \in {it \in NextChunkItems : it.kind = "data"} :
         /\ chain' = ChainWithChunkItem(dr)
         /\ gen' = GenWithData(dr)
         /\ IF InsertDataReceiptOk(tx_cache, dr.data_id, dr)
            THEN /\ tx_cache' = InsertDataReceipt(tx_cache, dr.data_id, dr)
                 /\ pc' = "chunks"
                 /\ event' = "data"
            ELSE /\ tx_cache' = tx_cache
                 /\ pc' = "fatal"
                 /\ event' = "panic: Duplicate data_id"
    /\ idx' = idx + 1
    /\ UNCHANGED <<sink, sled, rows, pos, replay, block, complete_transactions,
                   ever, handed, abandoned>>
    /\ UNCHANGED mainVars
    /\ UNCHANGED sideVars

\* the chunk pass is over; the outcome pass starts
EndChunkPass ==
    /\ pc = "chunks"
    /\ PassDone(chain[pos].chunk)
    /\ pc' = "outcomes"
    /\ idx' = 0
    /\ event' = "outcomes"
    /\ UNCHANGED <<sink, sled, tx_cache, rows, pos, replay, block,
                   complete_transactions, ever, handed, abandoned>>
    /\ UNCHANGED envVars
    /\ UNCHANGED mainVars
    /\ UNCHANGED sideVars

\* outcome pass: one execution outcome
ExecutionOutcome ==
    /\ pc = "outcomes"
    /\ \E o \in NextOutcomes :
         LET res == OutcomeBody(tx_cache, o, block.height, skip_missing_receipts,
                                watch_list)
             met == res.what \in {"complete: kept", "complete: dropped", "pending"}
             done == res.what \in {"complete: kept", "complete: dropped"}
             gone == res.what = "warn: Missing data receipt"
         IN
         /\ chain' = ChainWithOutcome(o)
         /\ gen' = GenWithOutcome(o)
         /\ tx_cache' = res.cache
         /\ event' = res.what
         /\ pc' = IF IsPanic(res.what) THEN "fatal" ELSE "outcomes"
         /\ complete_transactions' =
                IF res.what = "complete: kept"
                THEN Append(complete_transactions, res.pt)
                ELSE complete_transactions
         /\ ever' = IF done \/ gone THEN MapRemove(ever, res.pt.transaction.hash)
                    ELSE IF met
                    THEN [ever EXCEPT ![res.pt.transaction.hash] =
                              @ \cup SeqToSet(o.receipt_ids)]
                    ELSE ever
         /\ handed' = IF done
                      THEN handed \cup
                           {[pt      |-> res.pt,
                             height  |-> block.height,
                             kept    |-> res.what = "complete: kept",
                             pending |-> ever[res.pt.transaction.hash]
                                             \cup SeqToSet(o.receipt_ids)]}
                      ELSE handed
         /\ abandoned' = IF gone THEN abandoned \cup {res.pt.transaction.hash}
                         ELSE abandoned
    /\ idx' = idx + 1
    /\ UNCHANGED <<sink, sled, rows, pos, replay, block>>
    /\ UNCHANGED mainVars
    /\ UNCHANGED sideVars

\* The rest of process_block once the outcome pass is over: trim_headers, the
\* last_block_height key, the Row Projector outside skip mode, maybe_commit.
EndBlock ==
    /\ pc = "outcomes"
    /\ PassDone(chain[pos].outcomes)
    /\ \E errs \in ErrScripts :
         LET trimmed == TrimHeaders(tx_cache)
             p == IF RunsRowProjector(block.height, last_block_height)
                  THEN ProcessTransactions(trimmed, rows, complete_transactions)
                  ELSE [cache |-> trimmed, rows |-> rows]
             m == MaybeCommit(sink, p.rows, block.height, commit_every_block, errs)
         IN
         /\ sled' = SetKey(sled, LAST_BLOCK_HEIGHT_KEY, block.height)
         /\ tx_cache' = p.cache
         /\ rows' = m.rows
         /\ sink' = m.sink
         /\ IF ~m.ok
            THEN /\ pc' = "fatal"
                 /\ event' = "panic: sink error"
                 /\ pos' = pos
            ELSE /\ pc' = "recv"
                 /\ event' = IF m.committed THEN "committed" ELSE "block done"
                 /\ pos' = pos + 1
    /\ idx' = 0
    /\ complete_transactions' = <<>>
    /\ UNCHANGED <<replay, block, ever, handed, abandoned>>
    /\ UNCHANGED envVars
    /\ UNCHANGED mainVars
    /\ UNCHANGED sideVars

\* The stop signal closed the channel and the queue is drained: the loop of
\* listen_blocks_for_transactions ends, the last batch is committed and the
\* Working-Set Store is flushed.
Shutdown ==
    /\ pc = "recv"
    /\ \E errs \in ErrScripts :
         LET c == Commit(sink, rows, errs) IN
         /\ sink' = c.sink
         /\ rows' = EmptyRows
         /\ IF c.ok
            THEN /\ sled' = Flush(sled, tx_cache)
                 /\ pc' = "stopped"
                 /\ event' = "Gracefully shut down"
            ELSE /\ sled' = sled
                 /\ pc' = "fatal"
                 /\ event' = "panic: sink error"
    /\ UNCHANGED <<tx_cache, pos, idx, replay, block, complete_transactions,
                   ever, handed, abandoned>>
    /\ UNCHANGED envVars
    /\ UNCHANGED mainVars
    /\ UNCHANGED sideVars

\* The process is started again, after a shutdown or after it was killed
\* between two blocks: main runs on the disk and the sink as they were left.
Restart ==
    /\ pc \in {"recv", "stopped"}
    /\ restarts < MaxRestarts
    /\ LET b == Boot(sled, sink) IN
       /\ sled' = b.sled
       /\ tx_cache' = b.tx_cache
       /\ last_block_height' = b.last_block_height
       /\ start_block_height' = b.start_block_height
       /\ boot' = b.info
       /\ pos' = FeedPos(b.start_block_height)
    /\ rows' = EmptyRows
    /\ watch_list' = sink.watch_list
    /\ restarts' = restarts + 1
    /\ pc' = "recv"
    /\ idx' = 0
    /\ replay' = FALSE
    /\ complete_transactions' = <<>>
    /\ event' = "start"
    /\ ever' = EmptyMap
    /\ handed' = {}
    /\ abandoned' = {}
    /\ block' = [height |-> 0, hash |-> 0]
    /\ queue' = <<>>
    /\ fetched' = FeedPos(Boot(sled, sink).start_block_height)
    /\ is_running' = TRUE
    /\ closed' = FALSE
    /\ backlog' = FALSE
    /\ UNCHANGED <<sink, commit_every_block, call>>
    /\ UNCHANGED envVars

Next ==
    \/ RecvBlock
    \/ ChunkTransaction
    \/ ChunkReceipt
    \/ EndChunkPass
    \/ ExecutionOutcome
    \/ EndBlock
    \/ Shutdown
    \/ Restart

Spec == Init /\ [][Next]_vars

\* ------------------------------------------------------------------- claims
\* process_block has returned (or no block is in hand yet)
BetweenBlocks == pc \in {"recv", "stopped"}

StrictlyIncreasing(s) == \A i \in 1..(Len(s) - 1) : s[i] < s[i + 1]

ReceiptIdsOf(pt) ==
    {pt.transaction.receipts[i].receipt_id : i \in 1..Len(pt.transaction.receipts)}

\* the outcome the last step of the outcome pass consumed
LastOutcome == chain[pos].outcomes[idx]

\* the step is one iteration of the outcome loop
OutcomeStep == pc = "outcomes" /\ idx' = idx + 1

\* C1: after process_block returns, every PendingTransaction still in the
\* transactions map has a non-empty pending_receipt_ids, each id of it is a
\* key of receipt_to_tx mapped to the transaction's hash, and its blocks
\* list is strictly increasing.
C1_RetainedWellFormed ==
    BetweenBlocks =>
        \A h \in DOMAIN tx_cache.transactions :
            LET pt == tx_cache.transactions[h] IN
            /\ pt.pending_receipt_ids # <<>>
            /\ \A i \in 1..Len(pt.pending_receipt_ids) :
                   /\ pt.pending_receipt_ids[i] \in DOMAIN tx_cache.receipt_to_tx
                   /\ tx_cache.receipt_to_tx[pt.pending_receipt_ids[i]]
                          = pt.transaction.hash
            /\ StrictlyIncreasing(pt.blocks)

\* C2: a transaction handed to the Completion Filter has an empty
\* pending_receipt_ids, and every receipt id that was ever pending for it is
\* the receipt_id of an entry of its receipts list.
C2_CompleteHasAllReceipts ==
    \A x \in handed :
        /\ x.pt.pending_receipt_ids = <<>>
        /\ x.pending \subseteq ReceiptIdsOf(x.pt)

C2_Witness ==
    \E x \in handed : Cardinality(x.pending) >= 2 /\ Len(x.pt.blocks) >= 2

\* C3: a transaction all of whose spawned receipts (none included) have had
\* their outcome processed is not in the transactions map once process_block
\* has returned.
C3_NoCompleteTransactionRetained ==
    BetweenBlocks =>
        \A h \in DOMAIN tx_cache.transactions :
            ~(ever[h] \subseteq ReceiptIdsOf(tx_cache.transactions[h]))

\* C4: a block with block_height <= last_committed_height leaves the four row
\* buffers without a row, also when a transaction that matches the watch list
\* completed in it, and the transactions completed in it are out of the cache.
C4_SkipModeAddsNoRows ==
    (pc = "recv" /\ block.height > 0 /\ block.height <= last_block_height) =>
        /\ rows = EmptyRows
        /\ \A x \in handed : x.pt.transaction.hash \notin DOMAIN tx_cache.transactions

C4_Witness ==
    /\ pc = "recv"
    /\ block.height > 0
    /\ block.height <= last_block_height
    /\ \E x \in handed : x.kept /\ x.height = block.height

\* C5: in skip mode an outcome whose receipt id has no receipt_to_tx entry
\* leaves the cache (block_headers, receipt_to_tx, data_receipts,
\* transactions) and complete_transactions as they were, and the outcome
\* loop goes on.
C5_SkipsUnknownReceipt ==
    [][ ( /\ OutcomeStep
          /\ block.height <= last_block_height
          /\ LastOutcome'.receipt_id \notin DOMAIN tx_cache.receipt_to_tx )
        => ( /\ tx_cache' = tx_cache
             /\ complete_transactions' = complete_transactions
             /\ pc' = "outcomes" ) ]_vars

C5_Witness ==
    /\ pc = "outcomes"
    /\ event = "warn: Missing tx_hash"
    /\ block.height <= last_block_height

\* C6: a transaction abandoned for a missing input data receipt is abandoned
\* in skip mode only; from then on it is not in the transactions map, no
\* receipt_to_tx entry maps to its hash, it is not handed to the Completion
\* Filter, and the outcome loop goes on.
C6_AbandonedIsPurged ==
    /\ \A t \in abandoned :
           /\ t \notin DOMAIN tx_cache.transactions
           /\ \A r \in DOMAIN tx_cache.receipt_to_tx : tx_cache.receipt_to_tx[r] # t
           /\ \A x \in handed : x.pt.transaction.hash # t
    /\ event = "warn: Missing data receipt" =>
           /\ pc = "outcomes"
           /\ block.height <= last_block_height

C6_Witness ==
    /\ event = "warn: Missing data receipt"
    /\ \E r \in DOMAIN gen.owner :
           /\ gen.owner[r] \in abandoned
           /\ r \notin gen.executed

\* C7: outside skip mode an outcome without a receipt_to_tx entry, and an
\* executed Action receipt one of whose input data ids is not in the
\* data-receipt pool, end process_block in a panic.
C7_FatalOutsideSkipMode ==
    [][ ( /\ OutcomeStep
          /\ block.height > last_block_height
          /\ LET o == LastOutcome' IN
             \/ o.receipt_id \notin DOMAIN tx_cache.receipt_to_tx
             \/ /\ o.receipt_id \in DOMAIN tx_cache.receipt_to_tx
                /\ tx_cache.receipt_to_tx[o.receipt_id] \in DOMAIN tx_cache.transactions
                /\ o.kind = "Action"
                /\ \E i \in 1..Len(o.input_data_ids) :
                       o.input_data_ids[i] \notin DOMAIN tx_cache.data_receipts )
        => pc' = "fatal" ]_vars

C7_Witness ==
    /\ pc = "fatal"
    /\ event = "panic: Missing data receipt for data_id"
    /\ block.height > last_block_height

\* C8: after a restart no run ends in the panic for a missing receipt_to_tx
\* entry on a receipt of a transaction that was submitted before start_block.
C8_OldTransactionsTolerated ==
    ~( /\ pc = "fatal"
       /\ restarts > 0
       /\ event = "panic: Missing tx_hash for receipt_id"
       /\ HeightOf(gen.tx_pos[gen.owner[LastOutcome.receipt_id]]) < start_block_height )

\* C9 as claimed: with the cache ready, start_block is last_block_height + 1.
C9_StartBlockAsClaimed ==
    start_block_height =
        IF boot.is_cache_ready THEN last_block_height + 1
        ELSE Max(boot.first_block_height,
                 SaturatingSub(last_block_height, SAFE_CATCH_UP_OFFSET))

\* C9 (amended): last_block_height is max(cache_last, db_block), cache_ready is
\* cache_last = last_block_height, start_block is the larger of the first
\* available block and (last_block_height + 1 when the cache is ready,
\* last_block_height - 1000, not below 0, otherwise), and skip mode of every
\* block is block_height <= last_block_height.
C9_StartBlock ==
    /\ last_block_height = Max(boot.cache_block, boot.db_block)
    /\ boot.is_cache_ready = (boot.cache_block = last_block_height)
    /\ start_block_height =
           Max(boot.first_block_height,
               IF boot.is_cache_ready THEN last_block_height + 1
               ELSE SaturatingSub(last_block_height, SAFE_CATCH_UP_OFFSET))
    /\ pc \in {"chunks", "outcomes"} =>
           skip_missing_receipts = (block.height <= Max(boot.cache_block, boot.db_block))

C9_Witness ==
    /\ restarts > 0
    /\ ~boot.is_cache_ready
    /\ start_block_height = last_block_height - SAFE_CATCH_UP_OFFSET
    /\ start_block_height > boot.first_block_height
    /\ pc = "outcomes"
    /\ skip_missing_receipts

\* a kept transaction has its TransactionRow in the buffer or in the sink
Emitted(x) ==
    \E row \in SeqToSet(rows.transactions) \cup sink.transactions :
        row.transaction_hash = x.pt.transaction.hash

\* C10: a restart that finds db_block equal to the last_block_height left on
\* disk, both within the catch-up offset, starts at the first available
\* block; the blocks up to db_block are processed in skip mode, add no row
\* and end in no panic; the transactions kept in later blocks are emitted.
C10_RestartWithGap ==
    ( /\ restarts > 0
      /\ boot.db_block > 0
      /\ boot.db_block = boot.disk_block
      /\ boot.db_block <= SAFE_CATCH_UP_OFFSET ) =>
        /\ start_block_height = boot.first_block_height
        /\ (block.height > 0 /\ block.height <= boot.db_block) =>
               /\ rows = EmptyRows
               /\ pc # "fatal"
               /\ pc \in {"chunks", "outcomes"} => skip_missing_receipts
        /\ (pc \in {"chunks", "outcomes"} /\ block.height > boot.db_block) =>
               ~skip_missing_receipts
        /\ pc = "recv" =>
               \A x \in handed : (x.kept /\ x.height > boot.db_block) => Emitted(x)

C10_Witness ==
    /\ restarts > 0
    /\ boot.db_block > 0
    /\ boot.db_block = boot.disk_block
    /\ boot.db_block <= SAFE_CATCH_UP_OFFSET
    /\ pc = "recv"
    /\ \E x \in handed : x.kept /\ x.height <= boot.db_block
    /\ \E x \in handed : x.kept /\ x.height > boot.db_block

\* C11: a start without a clean-start flag (the program reads none) loads the
\* last_block_height and the four snapshots the directory holds into the cache
\* unchanged.
C11_LoadedVerbatim ==
    (restarts > 0 /\ event = "start" /\ boot.flushed) =>
        /\ boot.cache_block = boot.disk_block
        /\ tx_cache = boot.found

\* the rows of a buffer, as sets
RowSets(r) == [transactions |-> SeqToSet(r.transactions),
               account_txs  |-> SeqToSet(r.account_txs),
               block_txs    |-> SeqToSet(r.block_txs),
               receipt_txs  |-> SeqToSet(r.receipt_txs)]

\* the rows the runs so far emitted: in the sink or in the buffer
EmittedRows ==
    [transactions |-> sink.transactions \cup SeqToSet(rows.transactions),
     account_txs  |-> sink.account_txs \cup SeqToSet(rows.account_txs),
     block_txs    |-> sink.block_txs \cup SeqToSet(rows.block_txs),
     receipt_txs  |-> sink.receipt_txs \cup SeqToSet(rows.receipt_txs)]

\* the four indexes of the cache
CacheContents(c) == [block_headers |-> c.block_headers,
                     receipt_to_tx |-> c.receipt_to_tx,
                     data_receipts |-> c.data_receipts,
                     transactions  |-> c.transactions]

\* the blocks of the chain the current run has processed to the end
Processed == SubSeq(chain, 1, pos - 1)

\* no restart: the engine, block by block, is the straight run
NoRestartIsStraightRun ==
    (restarts = 0 /\ pc = "recv") =>
        LET ref == StraightRun(Processed, watch_list) IN
        /\ ref.ok
        /\ CacheContents(tx_cache) = CacheContents(ref.cache)
        /\ EmittedRows = RowSets(ref.rows)

\* C12: a run over blocks [a..b] that shuts down with a flush, followed by a
\* restart that goes on to block c without abandoning a transaction, has the
\* cache and the emitted rows of one run over [a..c].
C12_RestartEquivalence ==
    ( /\ restarts > 0
      /\ boot.flushed
      /\ pc = "recv"
      /\ block.height > boot.disk_block
      /\ abandoned = {} ) =>
        LET ref == StraightRun(Processed, watch_list) IN
        /\ CacheContents(tx_cache) = CacheContents(ref.cache)
        /\ EmittedRows = RowSets(ref.rows)

\* every row of r is in the sink
InSink(r) ==
    /\ r.transactions \subseteq sink.transactions
    /\ r.account_txs \subseteq sink.account_txs
    /\ r.block_txs \subseteq sink.block_txs
    /\ r.receipt_txs \subseteq sink.receipt_txs

\* C13 for the runs that end in a graceful shutdown.
C13_GracefulEnd ==
    pc = "stopped" => InSink(RowSets(StraightRun(Processed, watch_list).rows))

\* C13: when the process has ended, by a graceful shutdown or by a panic, in
\* a run after any number of stops between blocks, the rows of every
\* watch-list-matching transaction that was submitted and completed in the
\* blocks the feed delivered are in the sink.
C13_SurvivesRestarts ==
    /\ pc = "stopped" => InSink(RowSets(StraightRun(Processed, watch_list).rows))
    /\ pc = "fatal" =>
           InSink(RowSets(StraightRun(SubSeq(chain, 1, pos), watch_list).rows))


\* ------------------------------------------------- the sink calls on their own
\* A second specification applies insert_rows_with_retry, maybe_commit and
\* commit once each to buffers, sinks and failure scripts drawn from the sets
\* below, at the block heights HeightOf(1..SinkHeights).
SampleTxs == 2
MaxFails == 11
SinkHeights == 3

\* The transaction with hash h as the Block Processor leaves it when alice
\* submits it in block FirstBlockHeight and its only receipt, received by
\* bob, executes in the same block.
SampleOutcome(h) ==
    [kind |-> "Action", receipt_id |-> h, receiver_id |-> "bob",
     arg_accounts |-> {}, log_accounts |-> {},
     input_data_ids |-> <<>>, receipt_ids |-> <<>>]

SampleTx(h) ==
    [kind |-> "tx", hash |-> h, signer_id |-> "alice", receipt_ids |-> <<h>>]

SampleHeader == [height |-> FirstBlockHeight, hash |-> FirstBlockHeight]

SamplePt(h) ==
    AfterOutcome(AfterReceipt(NewPendingTransaction(SampleTx(h), SampleHeader),
                              h, SampleHeader.height),
                 SampleOutcome(h), <<>>)

\* the block that carries the first n sample transactions and their outcomes
SampleBlock(n) ==
    [height |-> SampleHeader.height, hash |-> SampleHeader.hash,
     chunk |-> [h \in 1..n |-> SampleTx(h)],
     outcomes |-> [h \in 1..n |-> SampleOutcome(h)]]

\* The buffers the Row Projector fills for the first n sample transactions,
\* written out table by table.
SampleRows(n) ==
    [transactions |-> [h \in 1..n |-> TransactionRowOf(SamplePt(h))],
     account_txs  |-> [i \in 1..(2 * n) |->
                          AccountTxRowOf(SamplePt((i + 1) \div 2),
                                         AccountOrder[2 - (i % 2)])],
     block_txs    |-> [h \in 1..n |->
                          [block_height     |-> SampleHeader.height,
                           block_hash       |-> SampleHeader.hash,
                           transaction_hash |-> h,
                           signer_id        |-> "alice",
                           tx_block_height  |-> SampleHeader.height]],
     receipt_txs  |-> [h \in 1..n |-> ReceiptTxRowOf(SamplePt(h), h)]]

\* the sink that holds the rows of the first m sample transactions
SampleSink(m, wl) ==
    LET r == SampleRows(m) IN
    [transactions |-> {r.transactions[i] : i \in 1..Len(r.transactions)},
     account_txs  |-> {r.account_txs[i] : i \in 1..Len(r.account_txs)},
     block_txs    |-> {r.block_txs[i] : i \in 1..Len(r.block_txs)},
     receipt_txs  |-> {r.receipt_txs[i] : i \in 1..Len(r.receipt_txs)},
     watch_list   |-> wl]

\* Buffer sizes and sink fillings a call starts from.  A buffer of min_batch
\* rows, or one row short of it, is only sent to a sink that already holds
\* its first rows.
SinkInputs ==
    {[n |-> n, m |-> m] : n \in 0..SampleTxs, m \in 0..SampleTxs}
        \cup {[n |-> n, m |-> m] : n \in {MinBatch - 1, MinBatch}, m \in 1..SampleTxs}

\* k attempts fail at their first row, the next one meets no failure
Fails(k) == [j \in 1..k |-> 1]

RetryScripts == {Fails(k) : k \in 0..MaxFails} \cup {<<1, 0, 1>>}

\* the first attempt fails at its second row, the next one meets no failure
FailsMidBatch == <<2>>

CommitScripts ==
    {<<a, <<>>, <<>>, b>> : a \in {Fails(0), Fails(1), Fails(MaxRetries), FailsMidBatch},
                            b \in {Fails(0), Fails(MaxRetries)}}

SinkInit ==
    \E wl \in WatchLists, every \in BOOLEAN, in \in SinkInputs, i \in 1..SinkHeights :
        LET db == SampleSink(in.m, wl)
            b  == Boot(EmptyMap, db)
        IN  /\ chain = <<>>
            /\ gen = [ntx |-> 0, nrid |-> 0, ndata |-> 0, executed |-> {},
                      consumed |-> {}, owner |-> EmptyMap, tx_pos |-> EmptyMap]
            /\ sink = db
            /\ sled = b.sled
            /\ tx_cache = b.tx_cache
            /\ rows = SampleRows(in.n)
            /\ watch_list = wl
            /\ commit_every_block = every
            /\ last_block_height = b.last_block_height
            /\ start_block_height = b.start_block_height
            /\ boot = b.info
            /\ pc = "sink"
            /\ pos = 1
            /\ idx = 0
            /\ replay = FALSE
            /\ block = [height |-> HeightOf(i), hash |-> HeightOf(i)]
            /\ complete_transactions = <<>>
            /\ event = "start"
            /\ ever = EmptyMap
            /\ handed = {}
            /\ abandoned = {}
            /\ restarts = 0
            /\ queue = <<>>
            /\ fetched = 1
            /\ is_running = TRUE
            /\ closed = FALSE
            /\ backlog = FALSE
            /\ call = NoCall

sinkFrame == <<chain, gen, sled, tx_cache, watch_list, commit_every_block,
               last_block_height, start_block_height, boot, pos, idx, replay,
               block, complete_transactions, ever, handed, abandoned, restarts,
               queue, fetched, is_running, closed, backlog>>

\* every row of the buffers is in its table of the sink
AllInSink(db, r) ==
    /\ \A i \in 1..Len(r.transactions) : r.transactions[i] \in db.transactions
    /\ \A i \in 1..Len(r.account_txs) : r.account_txs[i] \in db.account_txs
    /\ \A i \in 1..Len(r.block_txs) : r.block_txs[i] \in db.block_txs
    /\ \A i \in 1..Len(r.receipt_txs) : r.receipt_txs[i] \in db.receipt_txs

\* insert_rows_with_retry on the transactions buffer, as commit calls it.  An
\* Err travels up through `?` to the unwrap in main, which ends the process.
InsertRowsStep ==
    /\ pc = "sink"
    /\ rows.transactions # <<>>
    /\ \E errs \in RetryScripts :
         LET r == InsertRowsWithRetry(sink.transactions, rows.transactions, errs) IN
         /\ sink' = [sink EXCEPT !.transactions = r.table]
         /\ call' = [op |-> "insert_rows_with_retry", errs |-> errs, ok |-> r.ok,
                     attempts |-> r.attempts, slept |-> r.slept, res |-> r.res]
         /\ pc' = IF r.ok THEN "sunk" ELSE "fatal"
         /\ event' = IF r.ok THEN "inserted" ELSE "panic: sink error"
    /\ UNCHANGED rows
    /\ UNCHANGED sinkFrame

\* maybe_commit at the end of process_block for the block in hand
MaybeCommitStep ==
    /\ pc = "sink"
    /\ \E errs \in CommitScripts :
         LET m == MaybeCommit(sink, rows, block.height, commit_every_block, errs) IN
         /\ sink' = m.sink
         /\ rows' = m.rows
         /\ call' = [op |-> "maybe_commit", errs |-> errs, ok |-> m.ok,
                     committed |-> m.committed,
                     batch |-> Len(rows.transactions),
                     resent |-> AllInSink(sink, rows)]
         /\ pc' = IF m.ok THEN "sunk" ELSE "fatal"
         /\ event' = IF ~m.ok THEN "panic: sink error"
                     ELSE IF m.committed THEN "committed" ELSE "block done"
    /\ UNCHANGED sinkFrame

\* commit, as the shutdown path calls it
CommitStep ==
    /\ pc = "sink"
    /\ \E errs \in CommitScripts :
         LET c == Commit(sink, rows, errs) IN
         /\ sink' = c.sink
         /\ rows' = EmptyRows
         /\ call' = [op |-> "commit", errs |-> errs, ok |-> c.ok,
                     committed |-> TRUE,
                     batch |-> Len(rows.transactions),
                     resent |-> AllInSink(sink, rows)]
         /\ pc' = IF c.ok THEN "sunk" ELSE "fatal"
         /\ event' = IF c.ok THEN "committed" ELSE "panic: sink error"
    /\ UNCHANGED sinkFrame

SinkNext ==
    \/ InsertRowsStep
    \/ MaybeCommitStep
    \/ CommitStep

SinkSpec == SinkInit /\ [][SinkNext]_vars

\* the written-out buffers are the ones the Block Processor and the Row
\* Projector produce for the sample block
SampleRowsAreProjected ==
    \A n \in 0..SampleTxs :
        StraightRun(<<SampleBlock(n)>>, CHOOSE wl \in WatchLists : TRUE).rows
            = SampleRows(n)


\* C14: maybe_commit commits and leaves the four buffers empty when the
\* transactions buffer holds at least 10,000 rows, or the block height is a
\* multiple of 1,000, or commit_every_block is set; when none of the three
\* holds, the four buffers and the sink stay as they were.
C14_MaybeCommit ==
    [][(pc = "sink" /\ call'.op = "maybe_commit") =>
         IF \/ Len(rows.transactions) >= 10000
            \/ block.height % 1000 = 0
            \/ commit_every_block
         THEN call'.committed /\ rows' = EmptyRows
         ELSE ~call'.committed /\ rows' = rows /\ sink' = sink /\ call'.ok]_vars

\* maybe_commit committed a buffer of min_batch rows at a height that is not
\* round, with commit_every_block unset, and the buffers are empty
C14_Witness ==
    /\ call.op = "maybe_commit"
    /\ call.committed
    /\ call.batch >= MinBatch
    /\ block.height % SAVE_STEP # 0
    /\ ~commit_every_block
    /\ rows = EmptyRows

\* maybe_commit left a buffer one row short of min_batch alone
C14_BelowBatchKept ==
    /\ call.op = "maybe_commit"
    /\ ~call.committed
    /\ call.batch = MinBatch - 1
    /\ Len(rows.transactions) = MinBatch - 1


\* the first attempt the script lets through (past the script when all fail)
FirstGoodAttempt(errs) ==
    CHOOSE j \in 1..(Len(errs) + 1) :
        /\ j > Len(errs) \/ errs[j] = 0
        /\ \A k \in 1..(j - 1) : errs[k] # 0

\* C15: insert_rows_with_retry makes at most 10 attempts, waits 100 ms after
\* the first failed attempt and twice the previous wait after each later one,
\* stops at the first attempt that succeeds or meets a unique-key violation,
\* and when all 10 attempts fail for other reasons returns the error, which
\* ends the process.
C15_RetryPolicy ==
    call.op = "insert_rows_with_retry" =>
        LET first == FirstGoodAttempt(call.errs) IN
        /\ call.attempts \in 1..10
        /\ \A j \in 1..Len(call.slept) : call.slept[j] = 100 * 2 ^ (j - 1)
        /\ IF first <= 10
           THEN /\ call.ok
                /\ call.res \in {"ok", "dup"}
                /\ call.attempts = first
                /\ Len(call.slept) = first - 1
                /\ pc = "sunk"
           ELSE /\ ~call.ok
                /\ call.res = "err"
                /\ call.attempts = 10
                /\ Len(call.slept) = 10
                /\ pc = "fatal"

\* all ten attempts failed and the process ended
C15_Witness ==
    /\ call.op = "insert_rows_with_retry"
    /\ ~call.ok
    /\ call.attempts = MaxRetries
    /\ pc = "fatal"

\* the tenth attempt, after nine waits, met a row the sink already holds
C15_StopsAtDuplicate ==
    /\ call.op = "insert_rows_with_retry"
    /\ call.res = "dup"
    /\ call.attempts = MaxRetries
    /\ Len(call.slept) = MaxRetries - 1


\* no table's script fails all the attempts
NeverGivesUp(errs) ==
    \A t \in 1..Len(errs) : FirstGoodAttempt(errs[t]) <= MaxRetries

\* C16: committing a batch whose rows are all in the sink already leaves the
\* sink as it was and returns success, not a fatal error.
C16_CommitIdempotent ==
    [][(pc = "sink" /\ call'.op = "commit" /\ AllInSink(sink, rows)) =>
         /\ sink' = sink
         /\ NeverGivesUp(call'.errs) => (call'.ok /\ pc' = "sunk")]_vars

\* a batch of rows the sink already held was committed again and commit
\* returned success
C16_Witness ==
    /\ call.op = "commit"
    /\ call.resent
    /\ call.batch > 0
    /\ call.ok
    /\ pc = "sunk"


\* the lookups of an outcome's transaction and of its input data failed
MissingTx == {"warn: Missing tx_hash", "panic: Missing tx_hash for receipt_id",
              "panic: Missing transaction for receipt"}
MissingData == {"warn: Missing data receipt", "panic: Missing data receipt for data_id"}

\* the data ids the chunk of block b delivers
DataIdsOf(b) == {b.chunk[i].data_id : i \in {k \in 1..Len(b.chunk) : b.chunk[k].kind = "data"}}

\* C18: within one block the chunk pass is over before the first outcome is
\* processed, and the outcomes are consumed in list order: an outcome whose
\* transaction was submitted in the same block finds it (unless an earlier
\* outcome of the block abandoned it), also when its receipt was spawned by
\* an earlier outcome of the block, and an outcome that found its transaction
\* finds every input data receipt the same block's chunk delivered.
C18_ChunkPassFirst ==
    [][OutcomeStep =>
         LET b == chain'[pos]
             o == b.outcomes[idx + 1]
             tx == gen'.owner[o.receipt_id]
         IN  /\ (gen'.tx_pos[tx] = pos /\ tx \notin abandoned)
                    => event' \notin MissingTx
             /\ (event' \notin MissingTx /\ SeqToSet(o.input_data_ids) \subseteq DataIdsOf(b))
                    => event' \notin MissingData]_vars

\* in a block served again after a restart, the second outcome consumed a
\* receipt that the first outcome of the same block had spawned, for a
\* transaction submitted in that block
C18_Witness ==
    /\ pc = "outcomes"
    /\ replay
    /\ idx >= 2
    /\ LastOutcome.receipt_id \in SeqToSet(chain[pos].outcomes[idx - 1].receipt_ids)
    /\ gen.tx_pos[gen.owner[LastOutcome.receipt_id]] = pos
    /\ event \in {"pending", "complete: kept", "complete: dropped"}

\* an outcome consumed a data receipt that the chunk of its block delivered
C18_DataOfSameBlock ==
    /\ pc = "outcomes"
    /\ idx >= 1
    /\ LastOutcome.input_data_ids # <<>>
    /\ SeqToSet(LastOutcome.input_data_ids) \subseteq DataIdsOf(chain[pos])
    /\ event \in {"pending", "complete: kept", "complete: dropped"}


\* ------------------------------------------------------- a long run of blocks
\* A third specification processes the end of a feed of BLOCK_HEADER_CLEANUP +
\* LongExtra blocks, fixed at the start: alice's first transaction is
\* submitted in the first block and its only receipt executes in one of the
\* last blocks; her second transaction is submitted and executes in block
\* BLOCK_HEADER_CLEANUP + 1, where a data receipt for it is delivered too; the other blocks carry nothing.  The run starts
\* when the first blocks, up to LongLead short of BLOCK_HEADER_CLEANUP, have
\* been processed.
LongExtra == 3
LongLead == 8
LongBlocks == BLOCK_HEADER_CLEANUP + LongExtra

\* the data receipt the second transaction's receipt waits for
SampleData == [kind |-> "data", data_id |-> 1, receipt_id |-> DataReceiptId(1)]

LongChain(last, receiver) ==
    [i \in 1..LongBlocks |->
        [height   |-> HeightOf(i),
         hash     |-> HeightOf(i),
         chunk    |-> IF i = 1 THEN <<SampleTx(1)>>
                      ELSE IF i = BLOCK_HEADER_CLEANUP + 1
                      THEN <<SampleTx(2), SampleData>>
                      ELSE <<>>,
         outcomes |-> (IF i = BLOCK_HEADER_CLEANUP + 1
                       THEN <<[SampleOutcome(2) EXCEPT
                                 !.input_data_ids = <<SampleData.data_id>>]>>
                       ELSE <<>>)
                      \o (IF i = last
                          THEN <<[SampleOutcome(1) EXCEPT !.receiver_id = receiver]>>
                          ELSE <<>>)]]

\* the cache once the first `done` blocks of the feed are processed: their
\* headers, and the first transaction waiting for its receipt
LongCache(c, done) ==
    LET pt == NewPendingTransaction(SampleTx(1), SampleHeader) IN
    [InsertTransaction(c, pt, pt.pending_receipt_ids)
        EXCEPT !.block_headers =
            [h \in {HeightOf(i) : i \in 1..done} |-> [height |-> h, hash |-> h]]]

LongInit ==
    \E wl \in WatchLists, every \in CommitEveryBlock, receiver \in Receivers,
       last \in BLOCK_HEADER_CLEANUP..LongBlocks,
       done \in (BLOCK_HEADER_CLEANUP - LongLead)..(BLOCK_HEADER_CLEANUP - 1) :
        LET db == [transactions |-> {}, account_txs |-> {}, block_txs |-> {},
                   receipt_txs |-> {}, watch_list |-> wl]
            b  == Boot(EmptyMap, db)
        IN  /\ chain = LongChain(last, receiver)
            /\ gen = [ntx |-> 2, nrid |-> 2, ndata |-> 1, executed |-> {1, 2},
                      consumed |-> {1},
                      owner |-> MapInsert(MapInsert(EmptyMap, 1, 1), 2, 2),
                      tx_pos |-> MapInsert(MapInsert(EmptyMap, 1, 1),
                                           2, BLOCK_HEADER_CLEANUP + 1)]
            /\ sink = db
            /\ sled = SetKey(b.sled, LAST_BLOCK_HEIGHT_KEY, HeightOf(done))
            /\ tx_cache = LongCache(b.tx_cache, done)
            /\ rows = EmptyRows
            /\ watch_list = wl
            /\ commit_every_block = every
            /\ last_block_height = b.last_block_height
            /\ start_block_height = b.start_block_height
            /\ boot = b.info
            /\ pc = "recv"
            /\ pos = done + 1
            /\ idx = 0
            /\ replay = TRUE
            /\ block = [height |-> HeightOf(done), hash |-> HeightOf(done)]
            /\ complete_transactions = <<>>
            /\ event = "block done"
            /\ ever = MapInsert(EmptyMap, 1, {1})
            /\ handed = {}
            /\ abandoned = {}
            /\ restarts = 0
            /\ queue = <<>>
            /\ fetched = FeedPos(b.start_block_height)
            /\ is_running = TRUE
            /\ closed = FALSE
            /\ backlog = FALSE
            /\ call = NoCall

LongNext ==
    \/ RecvBlock
    \/ ChunkTransaction
    \/ ChunkReceipt
    \/ EndChunkPass
    \/ ExecutionOutcome
    \/ EndBlock

LongSpec == LongInit /\ [][LongNext]_vars

\* the heights that have a header in the cache
HeaderHeights(c) == DOMAIN c.block_headers

\* C20: after every process_block block_headers holds at most 2,000 entries,
\* the headers that left the cache during the block are the ones with the
\* lowest heights, and the Row Projector, which runs after the trim, does
\* not raise the count.
C20_HeadersBounded ==
    [][(pc = "outcomes" /\ pc' = "recv") =>
         LET trimmed == HeaderHeights(TrimHeaders(tx_cache))
             after   == HeaderHeights(tx_cache')
         IN  /\ Cardinality(after) <= 2000
             /\ Cardinality(after) <= Cardinality(trimmed)
             /\ after \subseteq HeaderHeights(tx_cache)
             /\ \A h \in HeaderHeights(tx_cache) \ after :
                    \A g \in after : h < g]_vars

\* the Row Projector ran on a transaction whose first block had lost its
\* header to the trim, in a block that left exactly 2,000 headers
C20_Witness ==
    /\ pc = "recv"
    /\ Cardinality(HeaderHeights(tx_cache)) = BLOCK_HEADER_CLEANUP
    /\ FirstBlockHeight \notin HeaderHeights(tx_cache)
    /\ \E i \in 1..Len(rows.transactions) :
           LET t == rows.transactions[i] IN
           /\ t.tx_block_height = FirstBlockHeight
           /\ t.last_block_height = block.height
           /\ \A j \in 1..Len(rows.block_txs) :
                  rows.block_txs[j].transaction_hash = t.transaction_hash
                      => rows.block_txs[j].block_height = block.height


\* --------------------------------------------------- fetcher, channel, processor
\* A fourth specification runs the fetcher task and the processing task side
\* by side on a feed of QueueCapacity + PipeExtra blocks, fixed at the start:
\* alice's first transaction is submitted in the first block and executes in
\* the second, her second one is submitted and executes in the block before
\* the last.
PipeExtra == 3
PipeBlocks == QueueCapacity + PipeExtra

PipeChain ==
    [i \in 1..PipeBlocks |->
        [height   |-> HeightOf(i),
         hash     |-> HeightOf(i),
         chunk    |-> IF i = 1 THEN <<SampleTx(1)>>
                      ELSE IF i = PipeBlocks - 1 THEN <<SampleTx(2)>>
                      ELSE <<>>,
         outcomes |-> IF i = 2 THEN <<SampleOutcome(1)>>
                      ELSE IF i = PipeBlocks - 1 THEN <<SampleOutcome(2)>>
                      ELSE <<>>]]

PipeInit ==
    \E wl \in WatchLists, every \in CommitEveryBlock :
        LET db == [transactions |-> {}, account_txs |-> {}, block_txs |-> {},
                   receipt_txs |-> {}, watch_list |-> wl]
            b  == Boot(EmptyMap, db)
        IN  /\ chain = PipeChain
            /\ gen = [ntx |-> 2, nrid |-> 2, ndata |-> 0, executed |-> {1, 2},
                      consumed |-> {},
                      owner |-> MapInsert(MapInsert(EmptyMap, 1, 1), 2, 2),
                      tx_pos |-> MapInsert(MapInsert(EmptyMap, 1, 1), 2, PipeBlocks - 1)]
            /\ sink = db
            /\ sled = b.sled
            /\ tx_cache = b.tx_cache
            /\ rows = EmptyRows
            /\ watch_list = wl
            /\ commit_every_block = every
            /\ last_block_height = b.last_block_height
            /\ start_block_height = b.start_block_height
            /\ boot = b.info
            /\ pc = "recv"
            /\ pos = FeedPos(b.start_block_height)
            /\ idx = 0
            /\ replay = TRUE
            /\ block = [height |-> 0, hash |-> 0]
            /\ complete_transactions = <<>>
            /\ event = "start"
            /\ ever = EmptyMap
            /\ handed = {}
            /\ abandoned = {}
            /\ restarts = 0
            /\ queue = <<>>
            /\ fetched = FeedPos(b.start_block_height)
            /\ is_running = TRUE
            /\ closed = FALSE
            /\ backlog = FALSE
            /\ call = NoCall

procVars == <<chain, gen, sink, sled, tx_cache, rows, watch_list, commit_every_block,
              last_block_height, start_block_height, boot, pc, pos, idx, replay,
              block, complete_transactions, event, ever, handed, abandoned, restarts>>

\* The fetcher sends the next block of the feed into the channel; with the
\* channel full the send waits.
Fetch ==
    /\ ~closed
    /\ fetched <= Len(chain)
    /\ Len(queue) < QueueCapacity
    /\ queue' = Append(queue, fetched)
    /\ fetched' = fetched + 1
    /\ UNCHANGED <<is_running, closed, backlog, call>>
    /\ UNCHANGED procVars

\* the Ctrl+C handler
CtrlC ==
    /\ is_running
    /\ is_running' = FALSE
    /\ UNCHANGED <<queue, fetched, closed, backlog, call>>
    /\ UNCHANGED procVars

\* the fetcher polls is_running, finds it cleared and returns: the sender is
\* dropped and the channel closes
CloseChannel ==
    /\ ~is_running
    /\ ~closed
    /\ closed' = TRUE
    /\ backlog' = (queue # <<>>)
    /\ UNCHANGED <<queue, fetched, is_running, call>>
    /\ UNCHANGED procVars

\* The receive gone wrong: the newest block comes out first.  C19 does not
\* survive it.
NextQueuedNewest(q) == q[Len(q)]

\* the block stream.recv() hands out
NextQueued(q) == Head(q)

\* `while let Some(block) = stream.recv().await`: the oldest block in the
\* channel is taken out and process_block starts on it
RecvQueued ==
    /\ pc = "recv"
    /\ queue # <<>>
    /\ Recv(NextQueued(queue))
    /\ pos' = NextQueued(queue)
    /\ queue' = Tail(queue)
    /\ UNCHANGED <<fetched, is_running, closed, backlog, call>>

\* The loop gone wrong: it ends as soon as the channel is closed.  C17 does
\* not survive it.
ChannelDrainedEarly == closed

\* stream.recv() yields None: the sender is dropped and no block is left
ChannelDrained == closed /\ queue = <<>>

DrainedShutdown == ChannelDrained /\ Shutdown

ProcessorStep ==
    \/ RecvQueued
    \/ ChunkTransaction
    \/ EndChunkPass
    \/ ExecutionOutcome
    \/ EndBlock
    \/ DrainedShutdown

PipeNext ==
    \/ Fetch
    \/ CtrlC
    \/ CloseChannel
    \/ RecvQueued
    \/ ChunkTransaction
    \/ EndChunkPass
    \/ ExecutionOutcome
    \/ EndBlock
    \/ DrainedShutdown

PipeSpec == PipeInit /\ [][PipeNext]_vars

\* the processing task is scheduled whenever it can take a step
FairPipeSpec == PipeSpec /\ WF_vars(ProcessorStep)


\* the step takes a block out of the channel
ReceiveStep == pc = "recv" /\ pc' \in {"chunks", "fatal"} /\ queue' # queue

\* C19: the channel between the fetcher and the processor never holds more
\* than 100 blocks; it holds the blocks fetched and not yet received, none
\* dropped, in feed order; with 100 blocks in it the fetcher sends nothing;
\* the processor takes a block only when the one before is done, and always
\* the oldest one, which is the next block of the feed.
C19_BoundedQueue ==
    /\ [](/\ Len(queue) <= 100
          /\ queue = [i \in 1..Len(queue) |-> fetched - Len(queue) + i - 1])
    /\ [][/\ Len(queue) = 100 => fetched' = fetched
          /\ fetched' # fetched => queue' = Append(queue, fetched)
          /\ pc \in {"chunks", "outcomes"}
                => (queue' = queue \/ queue' = Append(queue, fetched))
          /\ ReceiveStep => /\ pos' = Head(queue)
                            /\ queue' = Tail(queue)
                            /\ pos' = pos]_vars

\* the channel is full while the feed has more blocks, and the processor,
\* which has processed blocks before, is in the middle of one
C19_Witness ==
    /\ Len(queue) = QueueCapacity
    /\ fetched <= Len(chain)
    /\ pos > 1
    /\ pc = "chunks"

ProjectorStep ==
    /\ pc = "outcomes"
    /\ pc' = "recv"
    /\ event' = "block done"
    /\ RunsRowProjector(block.height, last_block_height)

\* the rows a step appended to a buffer
Appended(before, after) == SubSeq(after, Len(before) + 1, Len(after))

\* how many rows of a list belong to the transaction tx_hash
RowsOf(list, tx_hash) ==
    Cardinality({i \in 1..Len(list) : list[i].transaction_hash = tx_hash})

\* C21: for each completed transaction given to the Row Projector, the
\* BlockTxRows emitted are at most |blocks| and exactly |blocks| when every
\* height of blocks has a cached header, the ReceiptTxRows are |receipts| +
\* |data_receipts|, there is one TransactionRow, and the AccountTxRows are as
\* many as the extracted accounts.
C21_RowCounts ==
    [][ProjectorStep =>
         \A i \in 1..Len(complete_transactions) :
            LET pt == complete_transactions[i]
                h  == pt.transaction.hash
                n  == RowsOf(Appended(rows.block_txs, rows'.block_txs), h)
            IN  /\ n <= Len(pt.blocks)
                /\ SeqToSet(pt.blocks) \subseteq HeaderHeights(TrimHeaders(tx_cache))
                       => n = Len(pt.blocks)
                /\ RowsOf(Appended(rows.receipt_txs, rows'.receipt_txs), h)
                       = Len(pt.transaction.receipts) + Len(pt.transaction.data_receipts)
                /\ RowsOf(Appended(rows.transactions, rows'.transactions), h) = 1
                /\ RowsOf(Appended(rows.account_txs, rows'.account_txs), h)
                       = Cardinality(GetAccountsFromTransaction(pt))]_vars

\* the buffers hold the rows of a transaction with a data receipt, with a
\* BlockTxRow for each of its blocks, next to the rows of a transaction that
\* has fewer BlockTxRows than blocks
C21_Witness ==
    /\ pc = "recv"
    /\ event = "block done"
    /\ \E i, j \in 1..Len(rows.transactions) :
          LET t == rows.transactions[i].transaction
              u == rows.transactions[j]
          IN  /\ t.data_receipts # <<>>
              /\ RowsOf(rows.receipt_txs, t.hash) = Len(t.receipts) + Len(t.data_receipts)
              /\ RowsOf(rows.block_txs, t.hash) = 1
              /\ u.tx_block_height < u.last_block_height
              /\ RowsOf(rows.block_txs, u.transaction_hash) = 1


\* --------------------------------------------------- watch lists of all kinds
\* A fifth specification processes a feed of MaxBlocks blocks, fixed at the
\* start, under every watch list of up to MaxWatch entries: one transaction
\* is submitted in the first block, where its only receipt, received by bob,
\* executes; the signer and the accounts named in the arguments vary.
MaxWatch == 2

WatchEntries ==
    {[account_id |-> "alice", is_regex |-> FALSE],
     [account_id |-> "bob", is_regex |-> FALSE],
     [account_id |-> ".*", is_regex |-> FALSE],
     [account_id |-> ".*", is_regex |-> TRUE],
     [account_id |-> "^alice$", is_regex |-> TRUE],
     [account_id |-> "(", is_regex |-> TRUE]}

WideWatchLists == UNION {[1..n -> WatchEntries] : n \in 0..MaxWatch}

WatchChain(signer, args) ==
    [i \in 1..MaxBlocks |->
        [height   |-> HeightOf(i),
         hash     |-> HeightOf(i),
         chunk    |-> IF i = 1 THEN <<[SampleTx(1) EXCEPT !.signer_id = signer]>>
                      ELSE <<>>,
         outcomes |-> IF i = 1 THEN <<[SampleOutcome(1) EXCEPT !.arg_accounts = args]>>
                      ELSE <<>>]]

WatchInit ==
    \E wl \in WideWatchLists, every \in CommitEveryBlock,
       signer \in Signers, args \in {{}, {"alice"}} :
        LET db == [transactions |-> {}, account_txs |-> {}, block_txs |-> {},
                   receipt_txs |-> {}, watch_list |-> wl]
            b  == Boot(EmptyMap, db)
        IN  /\ chain = WatchChain(signer, args)
            /\ gen = [ntx |-> 1, nrid |-> 1, ndata |-> 0, executed |-> {1},
                      consumed |-> {}, owner |-> MapInsert(EmptyMap, 1, 1),
                      tx_pos |-> MapInsert(EmptyMap, 1, 1)]
            /\ sink = db
            /\ sled = b.sled
            /\ tx_cache = b.tx_cache
            /\ rows = EmptyRows
            /\ watch_list = wl
            /\ commit_every_block = every
            /\ last_block_height = b.last_block_height
            /\ start_block_height = b.start_block_height
            /\ boot = b.info
            /\ pc = "recv"
            /\ pos = FeedPos(b.start_block_height)
            /\ idx = 0
            /\ replay = TRUE
            /\ block = [height |-> 0, hash |-> 0]
            /\ complete_transactions = <<>>
            /\ event = "start"
            /\ ever = EmptyMap
            /\ handed = {}
            /\ abandoned = {}
            /\ restarts = 0
            /\ queue = <<>>
            /\ fetched = FeedPos(b.start_block_height)
            /\ is_running = TRUE
            /\ closed = FALSE
            /\ backlog = FALSE
            /\ call = NoCall

WatchNext ==
    \/ RecvBlock
    \/ ChunkTransaction
    \/ EndChunkPass
    \/ ExecutionOutcome
    \/ EndBlock

WatchSpec == WatchInit /\ [][WatchNext]_vars

\* entry e of a watch list matches account a
Matches(e, a) ==
    IF e.is_regex
    THEN RegexCompiles(e.account_id) /\ RegexIsMatch(e.account_id, a)
    ELSE e.account_id = a

SomeMatch(wl, pt) ==
    \E i \in 1..Len(wl) : \E a \in GetAccountsFromTransaction(pt) : Matches(wl[i], a)

\* the watch list has a regex entry that does not compile
HasInvalidRegex(wl) ==
    \E i \in 1..Len(wl) : wl[i].is_regex /\ ~RegexCompiles(wl[i].account_id)

\* the tables of the sink hold no row
NoRowsIn(db) ==
    /\ db.transactions = {}
    /\ db.account_txs = {}
    /\ db.block_txs = {}
    /\ db.receipt_txs = {}

\* C22: a completed transaction is kept, and outside skip mode projected to
\* rows, if and only if an account of its extracted set matches an entry of
\* the watch list: by string equality when is_regex is false, by the regular
\* expression when it is true.  With an empty watch list nothing is kept and
\* no row is ever emitted.
C22_KeptIffMatch ==
    /\ [][OutcomeStep =>
            \A h \in handed' \ handed :
               /\ h.kept <=> SomeMatch(watch_list, h.pt)
               /\ h.kept <=> complete_transactions' = Append(complete_transactions, h.pt)
               /\ ~h.kept => complete_transactions' = complete_transactions]_vars
    /\ [][ProjectorStep =>
            /\ \A i \in 1..Len(complete_transactions) :
                  RowsOf(Appended(rows.transactions, rows'.transactions),
                         complete_transactions[i].transaction.hash) = 1
            /\ Len(rows'.transactions)
                  = Len(rows.transactions) + Len(complete_transactions)]_vars
    /\ [](watch_list = <<>> =>
            /\ complete_transactions = <<>>
            /\ rows = EmptyRows
            /\ NoRowsIn(sink))

\* bob's transaction, which names alice in its arguments, was kept because
\* of the second entry of a watch list whose first entry, the text ".*"
\* taken literally, matches nothing; its rows are in the buffers
C22_Witness ==
    /\ pc = "recv"
    /\ Len(watch_list) = 2
    /\ watch_list[1] = [account_id |-> ".*", is_regex |-> FALSE]
    /\ watch_list[2] = [account_id |-> "^alice$", is_regex |-> TRUE]
    /\ \E h \in handed : h.kept /\ h.pt.transaction.signer_id = "bob"
    /\ Len(rows.transactions) = 1

\* a transaction was dropped and left no row
C22_Dropped ==
    /\ pc = "recv"
    /\ watch_list # <<>>
    /\ \E h \in handed : ~h.kept
    /\ rows = EmptyRows

\* C23: whenever a completed transaction is filtered against a watch list
\* that has an is_regex entry whose pattern does not compile, process_block
\* ends fatally, wherever that entry stands and whatever the others match.
C23_InvalidRegexFatal ==
    [][(/\ OutcomeStep
        /\ event' \in {"complete: kept", "complete: dropped", "panic: invalid regex"}
        /\ HasInvalidRegex(watch_list))
          => (event' = "panic: invalid regex" /\ pc' = "fatal")]_vars

\* an invalid regex that the scan reached ended process_block
C23_ReachedIsFatal ==
    /\ pc = "fatal"
    /\ event = "panic: invalid regex"


\* ------------------------------------------------- header inserts on their own
\* A sixth specification applies insert_block_header, and the take-out and
\* put-back of the Row Projector, to a cache that starts empty, with headers
\* of the first MaxBlocks heights that carry the hash of the chain or the
\* hash of a fork.
ForkHash(h) == 0 - h

HeaderInputs ==
    UNION {{[height |-> HeightOf(i), hash |-> HeightOf(i)],
            [height |-> HeightOf(i), hash |-> ForkHash(HeightOf(i))]} :
               i \in 1..MaxBlocks}

HeaderInit ==
    \E wl \in WatchLists, every \in CommitEveryBlock :
        LET db == [transactions |-> {}, account_txs |-> {}, block_txs |-> {},
                   receipt_txs |-> {}, watch_list |-> wl]
            b  == Boot(EmptyMap, db)
        IN  /\ chain = <<>>
            /\ gen = [ntx |-> 0, nrid |-> 0, ndata |-> 0, executed |-> {},
                      consumed |-> {}, owner |-> EmptyMap, tx_pos |-> EmptyMap]
            /\ sink = db
            /\ sled = b.sled
            /\ tx_cache = b.tx_cache
            /\ rows = EmptyRows
            /\ watch_list = wl
            /\ commit_every_block = every
            /\ last_block_height = b.last_block_height
            /\ start_block_height = b.start_block_height
            /\ boot = b.info
            /\ pc = "header"
            /\ pos = 1
            /\ idx = 0
            /\ replay = FALSE
            /\ block = [height |-> 0, hash |-> 0]
            /\ complete_transactions = <<>>
            /\ event = "start"
            /\ ever = EmptyMap
            /\ handed = {}
            /\ abandoned = {}
            /\ restarts = 0
            /\ queue = <<>>
            /\ fetched = 1
            /\ is_running = TRUE
            /\ closed = FALSE
            /\ backlog = FALSE
            /\ call = [op |-> "none", first |-> EmptyMap]

headerFrame == <<chain, gen, sink, sled, rows, watch_list, commit_every_block,
                 last_block_height, start_block_height, boot, pos, idx, replay,
                 block, complete_transactions, ever, handed, abandoned, restarts,
                 queue, fetched, is_running, closed, backlog>>

\* insert_block_header; call.first keeps, per height, the hash of the first
\* header inserted there
InsertHeaderStep ==
    /\ pc = "header"
    /\ \E header \in HeaderInputs :
         LET ok == InsertBlockHeaderOk(tx_cache, header) IN
         /\ tx_cache' = IF ok THEN InsertBlockHeader(tx_cache, header) ELSE tx_cache
         /\ pc' = IF ok THEN "header" ELSE "fatal"
         /\ event' = IF ok THEN "header" ELSE "panic: Header mismatch"
         /\ call' = [op |-> "insert_block_header", header |-> header, ok |-> ok,
                     first |-> IF header.height \in DOMAIN call.first THEN call.first
                               ELSE MapInsert(call.first, header.height, header.hash)]
    /\ UNCHANGED headerFrame

\* the Row Projector takes a header out of the cache and puts it back
ReinsertHeaderStep ==
    /\ pc = "header"
    /\ \E h \in DOMAIN tx_cache.block_headers :
         LET header == tx_cache.block_headers[h]
             c == GetAndRemoveBlockHeader(tx_cache, h)
         IN  /\ tx_cache' = InsertBlockHeader(c, header)
             /\ call' = [op |-> "get_and_remove_block_header", header |-> header,
                         ok |-> InsertBlockHeaderOk(c, header), first |-> call.first]
    /\ event' = "header"
    /\ UNCHANGED pc
    /\ UNCHANGED headerFrame

HeaderNext ==
    \/ InsertHeaderStep
    \/ ReinsertHeaderStep

HeaderSpec == HeaderInit /\ [][HeaderNext]_vars

TxHeights(c, owner, p, tx_hash) ==
    {c[k].height : k \in
        {q \in 1..p :
            \/ \E i \in 1..Len(c[q].chunk) :
                  c[q].chunk[i].kind = "tx" /\ c[q].chunk[i].hash = tx_hash
            \/ \E i \in 1..Len(c[q].outcomes) :
                  owner[c[q].outcomes[i].receipt_id] = tx_hash}}

\* C25: when a transaction completes, its blocks list is the increasing list
\* of the distinct heights in which it was submitted or one of its receipts
\* executed; it is emitted in the block that carries its last outcome, and
\* the last_block_height of its TransactionRow is that block's height.
C25_BlocksList ==
    /\ [][OutcomeStep =>
            \A h \in handed' \ handed :
               /\ StrictlyIncreasing(h.pt.blocks)
               /\ SeqToSet(h.pt.blocks)
                     = TxHeights(chain', gen'.owner, pos, h.pt.transaction.hash)
               /\ Last(h.pt.blocks) = block.height
               /\ h.kept => complete_transactions'[Len(complete_transactions')] = h.pt]_vars
    /\ [][ProjectorStep =>
            \A i \in 1..Len(complete_transactions) :
               \E k \in (Len(rows.transactions) + 1)..Len(rows'.transactions) :
                  /\ rows'.transactions[k].transaction_hash
                        = complete_transactions[i].transaction.hash
                  /\ rows'.transactions[k].last_block_height = block.height]_vars

\* a transaction whose receipts executed in the block of its submission and
\* in the next one completed with two heights in blocks, and its
\* TransactionRow carries the second one
C25_Witness ==
    /\ pc = "recv"
    /\ \E h \in handed :
          /\ h.kept
          /\ Len(h.pt.blocks) = 2
          /\ Len(h.pt.transaction.receipts) = 3
          /\ h.pt.tx_block_height = h.pt.blocks[1]
          /\ \E k \in 1..Len(rows.transactions) :
                /\ rows.transactions[k].transaction_hash = h.pt.transaction.hash
                /\ rows.transactions[k].last_block_height = h.pt.blocks[2]


\* the step belongs to process_block
ProcessBlockStep ==
    \/ pc = "recv" /\ pc' \in {"chunks", "fatal"}
    \/ pc \in {"chunks", "outcomes"}

\* C26: the Working-Set Store is written only by the flush at shutdown and
\* read only at startup: process_block leaves its contents, the
\* last_block_height key included, as they were.
C26_StoreUntouched ==
    [][ProcessBlockStep => sled' = sled]_vars

\* the four snapshots of the store are written by the flush at shutdown only
C26_SnapshotsUntouched ==
    [][ProcessBlockStep =>
         \A k \in {BLOCK_HEADERS_KEY, RECEIPT_TO_TX_KEY, DATA_RECEIPTS_KEY,
                   TRANSACTIONS_KEY} :
            /\ k \in DOMAIN sled' <=> k \in DOMAIN sled
            /\ k \in DOMAIN sled => sled'[k] = sled[k]]_vars


\* ------------------------------------------------ data receipts, in order
PoolSize == 3           \* data receipts of the feed with the data receipts

DataItem(d) == [kind |-> "data", data_id |-> d, receipt_id |-> DataReceiptId(d)]

\* the lists of data ids an Action receipt can name: no id twice
DataIdLists ==
    {l \in UNION {[1..n -> 1..PoolSize] : n \in 0..PoolSize} :
        \A i, j \in 1..Len(l) : l[i] = l[j] => i = j}

\* A feed of three blocks.  Block 1 submits transactions 1 and 2 and delivers
\* the data receipts 1..sent.  Block 2 executes receipt 1, which names ids1
\* and ends transaction 1, and receipt 2, which names the first k ids of ids2
\* and spawns receipt 3.  Block 3 executes receipt 3, which names the rest of
\* ids2 and ends transaction 2.
DataChain(sent, ids1, ids2, k) ==
    [i \in 1..3 |->
        [height   |-> HeightOf(i),
         hash     |-> HeightOf(i),
         chunk    |-> IF i = 1
                      THEN <<SampleTx(1), SampleTx(2)>> \o [d \in 1..sent |-> DataItem(d)]
                      ELSE <<>>,
         outcomes |-> IF i = 2
                      THEN <<[SampleOutcome(1) EXCEPT !.input_data_ids = ids1],
                             [SampleOutcome(2) EXCEPT
                                 !.input_data_ids = SubSeq(ids2, 1, k),
                                 !.receipt_ids = <<3>>]>>
                      ELSE IF i = 3
                      THEN <<[SampleOutcome(3) EXCEPT
                                 !.input_data_ids = SubSeq(ids2, k + 1, Len(ids2))]>>
                      ELSE <<>>]]

DataInit ==
    \E wl \in WatchLists, every \in CommitEveryBlock,
       sent \in {PoolSize - 1, PoolSize},
       ids1 \in DataIdLists, ids2 \in DataIdLists :
      \E k \in 0..Len(ids2) :
        LET db == [transactions |-> {}, account_txs |-> {}, block_txs |-> {},
                   receipt_txs |-> {}, watch_list |-> wl]
            b  == Boot(EmptyMap, db)
        IN  /\ chain = DataChain(sent, ids1, ids2, k)
            /\ gen = [ntx |-> 2, nrid |-> 3, ndata |-> sent, executed |-> {1, 2, 3},
                      consumed |-> SeqToSet(ids1) \cup SeqToSet(ids2),
                      owner |-> MapInsert(MapInsert(MapInsert(EmptyMap, 1, 1), 2, 2), 3, 2),
                      tx_pos |-> MapInsert(MapInsert(EmptyMap, 1, 1), 2, 1)]
            /\ sink = db
            /\ sled = b.sled
            /\ tx_cache = b.tx_cache
            /\ rows = EmptyRows
            /\ watch_list = wl
            /\ commit_every_block = every
            /\ last_block_height = b.last_block_height
            /\ start_block_height = b.start_block_height
            /\ boot = b.info
            /\ pc = "recv"
            /\ pos = FeedPos(b.start_block_height)
            /\ idx = 0
            /\ replay = TRUE
            /\ block = [height |-> 0, hash |-> 0]
            /\ complete_transactions = <<>>
            /\ event = "start"
            /\ ever = EmptyMap
            /\ handed = {}
            /\ abandoned = {}
            /\ restarts = 0
            /\ queue = <<>>
            /\ fetched = FeedPos(b.start_block_height)
            /\ is_running = TRUE
            /\ closed = FALSE
            /\ backlog = FALSE
            /\ call = NoCall

DataNext ==
    \/ RecvBlock
    \/ ChunkTransaction
    \/ ChunkReceipt
    \/ EndChunkPass
    \/ ExecutionOutcome
    \/ EndBlock

DataSpec == DataInit /\ [][DataNext]_vars

\* the data ids attached to a transaction, in the order of its data_receipts
AttachedIds(pt) ==
    [i \in 1..Len(pt.transaction.data_receipts) |->
        pt.transaction.data_receipts[i].data_id]

\* the transactions the run knows: the retained ones, the ones that completed
KnownTransactions ==
    {tx_cache.transactions[h] : h \in DOMAIN tx_cache.transactions}
        \cup {x.pt : x \in handed}

\* C27: when an Action receipt executes and every id of its input_data_ids
\* is in the data-receipt pool, each named data receipt leaves the pool and
\* is appended to the owning transaction's data_receipts in input order; a
\* data receipt is attached to at most one transaction, once; and each
\* attached data receipt yields one ReceiptTxRow when the transaction is
\* emitted.
C27_DataReceiptsAttached ==
    /\ [][ ( /\ OutcomeStep
             /\ LastOutcome'.kind = "Action"
             /\ LastOutcome'.receipt_id \in DOMAIN tx_cache.receipt_to_tx
             /\ tx_cache.receipt_to_tx[LastOutcome'.receipt_id]
                    \in DOMAIN tx_cache.transactions
             /\ SeqToSet(LastOutcome'.input_data_ids)
                    \subseteq DOMAIN tx_cache.data_receipts )
           => LET o      == LastOutcome'
                  ids    == o.input_data_ids
                  h      == tx_cache.receipt_to_tx[o.receipt_id]
                  before == tx_cache.transactions[h].transaction.data_receipts
                  after  == before \o [i \in 1..Len(ids) |-> tx_cache.data_receipts[ids[i]]]
              IN  /\ DOMAIN tx_cache'.data_receipts
                         = DOMAIN tx_cache.data_receipts \ SeqToSet(ids)
                  /\ \A d \in DOMAIN tx_cache'.data_receipts :
                         tx_cache'.data_receipts[d] = tx_cache.data_receipts[d]
                  /\ IF h \in DOMAIN tx_cache'.transactions
                     THEN tx_cache'.transactions[h].transaction.data_receipts = after
                     ELSE \E x \in handed' :
                             /\ x.pt.transaction.hash = h
                             /\ x.height = block.height
                             /\ x.pt.transaction.data_receipts = after ]_vars
    /\ [](\A p, q \in KnownTransactions :
            /\ \A i, j \in 1..Len(AttachedIds(p)) :
                   AttachedIds(p)[i] = AttachedIds(p)[j] => i = j
            /\ p.transaction.hash # q.transaction.hash
                   => SeqToSet(AttachedIds(p)) \cap SeqToSet(AttachedIds(q)) = {}
            /\ SeqToSet(AttachedIds(p)) \cap DOMAIN tx_cache.data_receipts = {})
    /\ [][ProjectorStep =>
            \A n \in 1..Len(complete_transactions) :
               LET pt  == complete_transactions[n]
                   new == Appended(rows.receipt_txs, rows'.receipt_txs)
               IN  \A i \in 1..Len(pt.transaction.data_receipts) :
                      Cardinality({r \in 1..Len(new) :
                          /\ new[r].transaction_hash = pt.transaction.hash
                          /\ new[r].receipt_id
                                 = pt.transaction.data_receipts[i].receipt_id}) = 1]_vars

\* a transaction took data receipt 2 with its first receipt and data
\* receipts 3 and 1, in that order, with a later one; the pool is empty and
\* the sink holds a ReceiptTxRow for each of the three
C27_Witness ==
    /\ pc = "recv"
    /\ tx_cache.data_receipts = EmptyMap
    /\ \E x \in handed :
          /\ x.kept
          /\ Len(x.pt.transaction.receipts) = 2
          /\ x.pt.transaction.receipts[1].input_data_ids = <<2>>
          /\ x.pt.transaction.receipts[2].input_data_ids = <<3, 1>>
          /\ AttachedIds(x.pt) = <<2, 3, 1>>
          /\ \A d \in 1..3 :
                \E r \in sink.receipt_txs :
                   /\ r.receipt_id = DataReceiptId(d)
                   /\ r.transaction_hash = x.pt.transaction.hash


\* the end of process_block, past the outcome loop
EndBlockStep == pc = "outcomes" /\ idx' = 0

\* C28: the Row Projector reads block headers without consuming them:
\* process_transaction leaves block_headers, receipt_to_tx, data_receipts
\* and transactions as it found them (that is, as trim_headers left them),
\* whether or not a height of the transaction's blocks still has a header.
C28_ProjectorKeepsCache ==
    [][ ( /\ EndBlockStep
          /\ RunsRowProjector(block.height, last_block_height)
          /\ complete_transactions # <<>> )
        => tx_cache' = TrimHeaders(tx_cache) ]_vars

\* a projected transaction has a block whose header was evicted and a block
\* whose header is still in the cache after its BlockTxRow was made
C28_Witness ==
    /\ pc = "recv"
    /\ \E x \in handed :
          /\ x.kept
          /\ x.height = block.height
          /\ \E i, j \in 1..Len(x.pt.blocks) :
                /\ x.pt.blocks[i] \notin HeaderHeights(tx_cache)
                /\ x.pt.blocks[j] \in HeaderHeights(tx_cache)
                /\ \E r \in 1..Len(rows.block_txs) :
                      /\ rows.block_txs[r].transaction_hash = x.pt.transaction.hash
                      /\ rows.block_txs[r].block_height = x.pt.blocks[j]
                      /\ rows.block_txs[r].block_hash
                             = tx_cache.block_headers[x.pt.blocks[j]].hash
          /\ \A r \in 1..Len(rows.block_txs) :
                rows.block_txs[r].transaction_hash = x.pt.transaction.hash
                    => rows.block_txs[r].block_height \in HeaderHeights(tx_cache)


\* C29: when commit returns success with sink writes enabled, every row that
\* was in the four buffers is in the sink: neither a unique-key violation on
\* one row nor a successful retry after a failure that came once some rows
\* of the batch were in leaves the rows that follow out of the sink.
C29_CommitStoresAll ==
    [][(pc = "sink" /\ call'.op = "commit" /\ call'.ok /\ ~PostgresSkipCommit)
          => AllInSink(sink', rows)]_vars

\* commit returned success on an empty sink for a batch whose first attempt
\* failed at its second row, and rows of the batch are not in the sink
C29_LostAfterRetry ==
    /\ call.op = "commit"
    /\ call.ok
    /\ call.errs[1] = FailsMidBatch
    /\ call.batch = 2
    /\ ~call.resent
    /\ Cardinality(sink.transactions) = 1
    /\ Cardinality(sink.account_txs) = 4


\* the pending ids of the retained transactions, each counted where it stands
PendingEntries(c) ==
    UNION {{<<h, i>> : i \in 1..Len(c.transactions[h].pending_receipt_ids)} :
              h \in DOMAIN c.transactions}

\* the blocks of the feed process_block has returned from in this run
RunBlocks == FeedPos(start_block_height)..(pos - 1)

\* the transactions those blocks submitted
FeedTransactions ==
    UNION {{chain[k].chunk[i].hash :
               i \in {j \in 1..Len(chain[k].chunk) : chain[k].chunk[j].kind = "tx"}} :
              k \in RunBlocks}

\* the receipts those blocks executed
FeedExecuted ==
    UNION {{chain[k].outcomes[i].receipt_id : i \in 1..Len(chain[k].outcomes)} :
              k \in RunBlocks}

\* every receipt of the transaction, the ones of its root outcome and the
\* ones they spawned, has been executed
CompletedInFeed(tx_hash) ==
    {r \in DOMAIN gen.owner : gen.owner[r] = tx_hash} \subseteq FeedExecuted

\* each entry of receipt_to_tx points to a retained transaction that has the
\* id pending, there are as many entries as pending ids, and the lookup of
\* the owning transaction after a receipt_to_tx hit does not fail
C30_IndexConsistent ==
    /\ event # "panic: Missing transaction for receipt"
    /\ BetweenBlocks =>
          /\ \A r \in DOMAIN tx_cache.receipt_to_tx :
                LET h == tx_cache.receipt_to_tx[r] IN
                /\ h \in DOMAIN tx_cache.transactions
                /\ r \in SeqToSet(tx_cache.transactions[h].pending_receipt_ids)
          /\ Cardinality(DOMAIN tx_cache.receipt_to_tx)
                 = Cardinality(PendingEntries(tx_cache))

\* C30: after every process_block each entry r -> tx of receipt_to_tx points
\* to a transaction that is in the transactions map and has r in its
\* pending_receipt_ids, receipt_to_tx has as many entries as the retained
\* transactions have pending ids, and the lookup of the owning transaction
\* after a receipt_to_tx hit never fails; when every transaction of the feed
\* has completed, transactions and receipt_to_tx are both empty.
C30_ReceiptIndex ==
    /\ C30_IndexConsistent
    /\ (BetweenBlocks /\ \A h \in FeedTransactions : CompletedInFeed(h))
          => /\ tx_cache.transactions = EmptyMap
             /\ tx_cache.receipt_to_tx = EmptyMap


\* when every transaction of the feed has completed, receipt_to_tx is empty
\* and the transactions still retained are the ones that never had a pending
\* receipt id
C30_OnlyReceiptlessRetained ==
    (BetweenBlocks /\ \A h \in FeedTransactions : CompletedInFeed(h))
        => /\ tx_cache.receipt_to_tx = EmptyMap
           /\ \A h \in DOMAIN tx_cache.transactions :
                 h \in DOMAIN ever /\ ever[h] = {}


\* the transactions this run gave to the Row Projector in the blocks before
\* the one in hand
ProjectedBefore ==
    {x.pt.transaction.hash :
        x \in {y \in handed : /\ y.kept
                              /\ y.height < block.height
                              /\ RunsRowProjector(y.height, last_block_height)}}

\* C31: within one run each transaction is handed to the Row Projector at
\* most once, so over the whole run the transactions buffer receives at most
\* one TransactionRow per transaction hash.
C31_ProjectedOnce ==
    /\ [][OutcomeStep =>
            \A x \in handed' \ handed, y \in handed :
               x.pt.transaction.hash # y.pt.transaction.hash]_vars
    /\ [](\A i, j \in 1..Len(complete_transactions) :
             complete_transactions[i].transaction.hash
                 = complete_transactions[j].transaction.hash => i = j)
    /\ [][(EndBlockStep /\ RunsRowProjector(block.height, last_block_height)) =>
            LET new == IF pc' = "recv" /\ event' = "block done"
                       THEN Appended(rows.transactions, rows'.transactions)
                       ELSE ProcessTransactions(TrimHeaders(tx_cache), EmptyRows,
                                                complete_transactions).rows.transactions
            IN  /\ Len(new) = Len(complete_transactions)
                /\ \A i \in 1..Len(new) :
                      /\ new[i].transaction_hash
                             = complete_transactions[i].transaction.hash
                      /\ new[i].transaction_hash \notin ProjectedBefore]_vars
    /\ [](\A i, j \in 1..Len(rows.transactions) :
             rows.transactions[i].transaction_hash
                 = rows.transactions[j].transaction_hash => i = j)

\* two transactions were given to the Row Projector in two blocks of the
\* run, and the transactions buffer holds one TransactionRow for each
C31_Witness ==
    /\ pc = "recv"
    /\ Len(rows.transactions) = 2
    /\ \E x, y \in handed :
          /\ x.kept /\ y.kept
          /\ x.height < y.height
          /\ RunsRowProjector(x.height, last_block_height)
          /\ rows.transactions[1].transaction_hash = x.pt.transaction.hash
          /\ rows.transactions[2].transaction_hash = y.pt.transaction.hash
          /\ rows.transactions[1].last_block_height = x.height
          /\ rows.transactions[2].last_block_height = y.height

====
